---- MODULE Spec2Model ----
(***************************************************************************)
(* Order-lifecycle reconciliation and automated clearing engine of the     *)
(* trading dashboard: AutoClearManager (registry, state machine, clearing  *)
(* price, reverse-order submission, persistence) and the poll cycle of     *)
(* TradingDashboard that drives it.                                        *)
(*                                                                         *)
(* Numbers.  Prices are decimals of the program; the model writes a price  *)
(* p as the integer p * 10000 (0.93 is 9300), and a percentage price       *)
(* ("93.00") as the integer percent * 100, which is the same integer.      *)
(* USDT amounts are written in thousandths.  Share counts are exact        *)
(* fractions [n, d].  Arithmetic is exact decimal arithmetic.              *)
(***************************************************************************)
EXTENDS Integers, Sequences, FiniteSets, TLC

VARIABLES
  \* ---- calculateClearPrice applied to drawn inputs (SpecPrice)
  costPrice,      \* argument costPrice
  orderBook,      \* argument orderBook: [error, bids, asks]
  clearPrice,     \* the value returned
  calcDone,       \* whether calculateClearPrice has been applied
  \* ---- AutoClearManager and the dashboard's poll cycle (Spec)
  trackedOrders,  \* this.trackedOrders: orderId -> order record (NoOrder: no entry)
  doc,            \* the content of this.storageFile
  tasks,          \* the async operations in flight, each at one of its await points
  sells,          \* the sell orders the exchange has accepted from createReverseClearOrder
  clock,          \* number of trackOrder calls so far (the value new Date() gives trackedAt)
  isInitialized,  \* this.isInitialized of the manager
  \* ---- save, then initialize on a fresh manager, then save (SpecReload)
  memMap,         \* this.trackedOrders of the manager that saves: its entries in insertion order
  file,           \* the document its save writes
  loadedMap,      \* this.trackedOrders of the fresh manager after initialize
  file2,          \* the document the fresh manager's save writes
  phase,          \* "idle", "start", "saved", "loaded", "resaved"
  \* ---- one call of updateOrderStatus, statement by statement (SpecUpdate)
  closedList,     \* argument closedOrders
  idx,            \* position of closedOrder in the list
  upc,            \* "idle", "entry", "loop", "call", "await", "save", "done"
  hasChanges,     \* local hasChanges
  writes,         \* number of save() calls made
  \* ---- detectOrderChanges on successive open-order snapshots (SpecDiffer)
  previousOrdersMap,       \* this.previousOrdersMap: its entries in insertion order
  eventHistory,            \* this.eventHistory
  manuallyCancelledOrders, \* this.manuallyCancelledOrders
  currentOrders,           \* argument of the latest detectOrderChanges call
  emitted,                 \* the events the latest call passed to addEvent
  notified,                \* the Telegram notifications the latest call started
  calls,                   \* number of detectOrderChanges calls so far
  \* ---- refreshOpenOrders of the dashboard, await by await (SpecPoll)
  openOrders,     \* this.openOrders
  poll,           \* the refreshOpenOrders calls in flight, each at one of its awaits
  pending,        \* number of Telegram notifications started and not yet settled
  cycles,         \* number of refresh() calls so far
  \* ---- the key handlers, submitOrder and executeCancelOrder of the dashboard (SpecInteract)
  interactionMode,    \* this.interactionMode ("null" for null)
  selectedOrderData,  \* this.selectedOrderData: nothing, an order-book item or an open order
  priceAdjustment,    \* this.priceAdjustment
  inputBuffer,        \* this.inputBuffer
  autoClearEnabled,   \* this.autoClearEnabled
  submitMessage,      \* this.submitMessage, by the kind of text
  submits,            \* the submitOrder calls in flight, each at one of its awaits
  cancels,            \* the executeCancelOrder calls in flight, each at one of its awaits
  timers,             \* the setTimeout callbacks pending, by kind
  \* ---- getAllTrades of the SDK (SpecTrades)
  page,           \* local page
  allTrades,      \* allTrades.length
  gpc             \* the getAllTrades call: idle, query (awaiting queryTrades), result, done, threw

priceVars == <<costPrice, orderBook, clearPrice, calcDone>>
mgrVars == <<trackedOrders, doc, tasks, sells, clock, isInitialized>>
reloadVars == <<memMap, file, loadedMap, file2, phase>>
updVars == <<closedList, idx, upc, hasChanges, writes>>
differVars == <<previousOrdersMap, eventHistory, manuallyCancelledOrders,
                currentOrders, emitted, notified, calls>>
pollVars == <<openOrders, poll, pending, cycles>>
uiVars == <<interactionMode, selectedOrderData, priceAdjustment, inputBuffer,
            autoClearEnabled, submitMessage, submits, cancels, timers>>
tradeVars == <<page, allTrades, gpc>>
\* what no operation of the manager writes once initialize has run
pureVars == <<priceVars, reloadVars, updVars, differVars, pollVars, uiVars, tradeVars,
              isInitialized>>
vars == <<costPrice, orderBook, clearPrice, calcDone,
          trackedOrders, doc, tasks, sells, clock, isInitialized,
          memMap, file, loadedMap, file2, phase,
          closedList, idx, upc, hasChanges, writes,
          previousOrdersMap, eventHistory, manuallyCancelledOrders,
          currentOrders, emitted, notified, calls,
          openOrders, poll, pending, cycles,
          interactionMode, selectedOrderData, priceAdjustment, inputBuffer,
          autoClearEnabled, submitMessage, submits, cancels, timers,
          page, allTrades, gpc>>

----------------------------------------------------------------------------
(* Bounds of the model *)

MaxOrderId == 1        \* orderIds are 1..MaxOrderId
MaxTasks == 2          \* async operations in flight at the same time
MaxTracks == 2         \* trackOrder calls in one run
MaxClosed == 1         \* closed orders the loop of updateOrderStatus passes in one synchronous run
MaxKey == 2            \* values of the orderIds of a reloaded map
MaxUpdId == 2          \* orderIds of the map of one updateOrderStatus call
MaxDiffId == 2         \* orderIds of the open orders
MaxOpen == 2           \* open orders in one snapshot
MaxCalls == 3          \* detectOrderChanges calls in one run
MaxList == 2           \* closed orders in the list of one updateOrderStatus call
MaxOffset == 8         \* width, in 0.0001 steps, of the two price bands of SpecPrice
MaxPolls == 2          \* refreshOpenOrders calls in flight at the same time
MaxCycles == 3         \* refresh() calls in one run
MaxPollOpen == 1       \* open orders in one result of getOpenOrders in SpecPoll
MaxAdded == 130        \* addEvent calls in SpecHistory
MaxPage == 16          \* page is counted up to here
MaxPageLen == 2        \* trades in one page
MaxTotal == 6          \* total reported by a page
MaxSubmits == 2        \* submitOrder calls that reach the exchange
MaxCancels == 1        \* executeCancelOrder calls that reach the exchange
MaxAdjust == 8         \* |priceAdjustment| the up and down keys are followed to

(* Program constants *)

SpreadThreshold == 1000   \* spread > 0.1
SpreadStep == 1000        \* bestAsk - 0.1
RoundUnit == 10           \* Math.round(x * 1000) / 1000: a 0.001 step is 10 units
FillNumer == 999          \* filledUsdt >= totalUsdt * 0.999
FillDenom == 1000
BuySide == 1              \* side: 1=BUY, 2=SELL
ClosedFilled == 2         \* closedOrder.status === 2
FillTolNumer == 99        \* parseFloat(filled) >= parseFloat(amount) * 0.99
FillTolDenom == 100
MaxEventHistory == 100    \* this.MAX_EVENT_HISTORY

\* JavaScript null for a price (calculateClearPrice's "no safe price")
NoPrice == 0 - 1
\* a numeric field that is null or was never assigned (undefined)
Unset == 0 - 1
\* NaN in a numeric field
NotANumber == 0 - 2
\* orderBook.bids or orderBook.asks that is undefined: written as a list of one level
\* without a price
NoList == <<[price |-> Unset]>>

----------------------------------------------------------------------------
(* calculateClearPrice *)

Max(a, b) == IF a >= b THEN a ELSE b

\* Math.round(targetPrice * 1000) / 1000
Round3(p) == ((p + (RoundUnit \div 2)) \div RoundUnit) * RoundUnit

\* The prices are IEEE doubles.  Of the pairs <<bestBid, bestAsk>> of the price bands
\* used here that are 0.1 apart, these are the ones whose difference, as a double, is
\* above 0.1 (0.93 - 0.83 = 0.10000000000000009); bestAsk - 0.1 is then a double just
\* above bestBid (0.93 - 0.1 = 0.8300000000000001).  For every other pair of the bands
\* the comparisons and the rounding give what decimal arithmetic gives.
DoubleSpreadPairs == {<<8300, 9300>>, <<8301, 9301>>}

\* a variant that takes the best bid for the best ask when there are no asks
calculateClearPriceNoAskCheck(cost, book) ==
  IF book.bids = NoList \/ Len(book.bids) = 0 THEN NoPrice
  ELSE LET bestBid == book.bids[1].price
           bestAsk == IF book.asks = NoList \/ Len(book.asks) = 0
                      THEN bestBid + RoundUnit ELSE book.asks[1].price
           spread == bestAsk - bestBid
           excess == <<bestBid, bestAsk>> \in DoubleSpreadPairs
           base == IF spread > SpreadThreshold \/ excess
                   THEN bestAsk - SpreadStep ELSE bestAsk
           targetPrice == Max(base, cost)
       IN IF targetPrice <= bestBid /\ ~excess THEN NoPrice ELSE Round3(targetPrice)

\* a variant that leaves out the cost protection step
calculateClearPriceNoCostFloor(cost, book) ==
  IF book.bids = NoList \/ Len(book.bids) = 0 THEN NoPrice
  ELSE IF book.asks = NoList \/ Len(book.asks) = 0 THEN NoPrice
  ELSE LET bestBid == book.bids[1].price
           bestAsk == book.asks[1].price
           spread == bestAsk - bestBid
           excess == <<bestBid, bestAsk>> \in DoubleSpreadPairs
           targetPrice == IF spread > SpreadThreshold \/ excess
                          THEN bestAsk - SpreadStep ELSE bestAsk
       IN IF targetPrice <= bestBid /\ ~excess THEN NoPrice ELSE Round3(targetPrice)

calculateClearPrice(cost, book) ==
  IF book.bids = NoList \/ Len(book.bids) = 0 THEN NoPrice
  ELSE IF book.asks = NoList \/ Len(book.asks) = 0 THEN NoPrice
  ELSE LET bestBid == book.bids[1].price
           bestAsk == book.asks[1].price
           spread == bestAsk - bestBid
           \* spread > 0.1 as doubles
           excess == <<bestBid, bestAsk>> \in DoubleSpreadPairs
           base == IF spread > SpreadThreshold \/ excess
                   THEN bestAsk - SpreadStep ELSE bestAsk
           targetPrice == Max(base, cost)
       \* with excess the target is above bestBid by a fraction of the last bit at least
       IN IF targetPrice <= bestBid /\ ~excess THEN NoPrice ELSE Round3(targetPrice)

----------------------------------------------------------------------------
(* The tracked-order records, the map and the stored document *)

\* one level of an order book, and what getOrderBook returns: the error text ("" when
\* there is none) and the two lists
Level(p) == [price |-> p]
NoBook == [error |-> "", bids |-> <<>>, asks |-> <<>>]

OrderIds == 1..MaxOrderId
Tasks == 1..MaxTasks

\* a share count n/d; d = 0 stands for undefined (the field was never assigned)
NoShares == [n |-> 0, d |-> 0]

\* no entry under this orderId
NoOrder ==
  [status |-> "none", side |-> 0, price |-> 0, trackedAt |-> 0,
   filledShares |-> NoShares, filledUsdt |-> Unset, errorMessage |-> "null",
   reverseOrderId |-> 0, reversePrice |-> Unset, reverseShares |-> NoShares,
   clearedAt |-> FALSE]

\* the orderInfo literal of trackOrder
NewOrder(side, price, at) ==
  [NoOrder EXCEPT !.status = "pending", !.side = side, !.price = price, !.trackedAt = at]

EmptyMap == [o \in OrderIds |-> NoOrder]

\* this.trackedOrders.has(orderId)
Has(m, o) == m[o].status # "none"

\* JSON.stringify(Object.fromEntries(this.trackedOrders)): one entry per key of the
\* map, each with the fields assigned so far
Serialize(m) == [o \in OrderIds |-> IF Has(m, o) THEN m[o] ELSE NoOrder]

\* an async operation: where it waits (pc) and its local variables
\*   id, att, obj : the trackedOrder object createReverseClearOrder works on; att says
\*                  whether it still is the object stored in the map under id, and obj
\*                  holds it once it is not (the map entry was replaced or deleted)
\*   chg          : hasChanges
\*   book         : orderBook
\*   snap         : the text handed to fs.writeFile by the save in flight
\*   cp           : clearPrice
\*   err          : error.message in the catch block of createReverseClearOrder
\*   ret          : "refresh" when trackOrder was called by submitOrder
IdleTask ==
  [pc |-> "idle", id |-> 0, att |-> TRUE, obj |-> NoOrder, chg |-> FALSE,
   snap |-> EmptyMap, book |-> NoBook, cp |-> NoPrice, err |-> "", ret |-> "none"]

SavePcs == {"track_save", "remove_save", "clear_save", "crc_save1", "crc_save2",
            "crc_final", "uos_save"}

\* the task is inside createReverseClearOrder and holds a reference to its argument
Holding(tk) == tk.pc \in {"crc_save1", "crc_save2", "crc_fetch", "crc_sell", "crc_final"}

\* the trackedOrder object of a task inside createReverseClearOrder
ObjOf(m, tk) == IF tk.att THEN m[tk.id] ELSE tk.obj

\* assignment to a field of that object: it shows in the map only while the map
\* still holds the object
PutObj(m, tk, r) == IF tk.att THEN [m EXCEPT ![tk.id] = r] ELSE m
KeepObj(tk, r) == IF tk.att THEN tk ELSE [tk EXCEPT !.obj = r]

\* the map entries ids are replaced or deleted: a task working on one of them keeps the
\* old object
Detached(tk, ids, m) ==
  IF Holding(tk) /\ tk.att /\ tk.id \in ids
  THEN [tk EXCEPT !.att = FALSE, !.obj = m[tk.id]]
  ELSE tk

\* save() up to its await: the map is serialised when save is called
StartSave(tk, m, pc) == [tk EXCEPT !.pc = pc, !.snap = Serialize(m)]

----------------------------------------------------------------------------
(* SpecPrice: calculateClearPrice on drawn inputs *)

\* two bands of prices 0.1 apart, in 0.0001 steps: 0.8300.. and 0.9300..
LowBand == {8300 + o : o \in 0..MaxOffset}
HighBand == {9300 + o : o \in 0..MaxOffset}

\* a list is undefined, empty, or has levels; only the best level of each side is read
\* by calculateClearPrice
BidLists == {NoList, <<>>} \cup {<<Level(p)>> : p \in LowBand}
AskLists == {NoList, <<>>} \cup {<<Level(p)>> : p \in LowBand \cup HighBand}

\* the manager after construction and initialize() with no stored file
MgrIdle ==
  /\ trackedOrders = EmptyMap
  /\ doc = EmptyMap
  /\ tasks = [t \in Tasks |-> IdleTask]
  /\ sells = <<>>
  /\ clock = 0
  /\ isInitialized = TRUE

\* no save / initialize round trip is being made
ReloadIdle ==
  /\ memMap = <<>>
  /\ file = <<>>
  /\ loadedMap = <<>>
  /\ file2 = <<>>
  /\ phase = "idle"

\* no statement-by-statement call of updateOrderStatus is being made
UpdIdle ==
  /\ closedList = <<>>
  /\ idx = 0
  /\ upc = "idle"
  /\ hasChanges = FALSE
  /\ writes = 0

\* the dashboard after construction: no snapshot, no event
DifferIdle ==
  /\ previousOrdersMap = <<>>
  /\ eventHistory = <<>>
  /\ manuallyCancelledOrders = {}
  /\ currentOrders = [list |-> <<>>, missing |-> TRUE]
  /\ emitted = <<>>
  /\ notified = <<>>
  /\ calls = 0

\* the dashboard's poll after construction: this.openOrders = null, no refresh running
PollIdle ==
  /\ openOrders = [kind |-> "null", list |-> <<>>, missing |-> TRUE]
  /\ poll = [t \in 1..MaxPolls |-> [pc |-> "idle", result |-> [list |-> <<>>, missing |-> TRUE]]]
  /\ pending = 0
  /\ cycles = 0

\* the dashboard after construction: navigation mode, nothing selected, no call and no
\* timer pending
NoSelection == [kind |-> "none", side |-> "none", price |-> 0]

\* a submitOrder call: where it is, whether the exchange accepted its order and whether
\* it registered the order with the manager
IdleSubmit == [pc |-> "idle", accepted |-> FALSE, tracked |-> FALSE]

NoTimers == [message |-> 0, postCancel |-> 0, postSubmit |-> 0, submitFailed |-> 0]

UiIdle ==
  /\ interactionMode = "null"
  /\ selectedOrderData = NoSelection
  /\ priceAdjustment = 0
  /\ inputBuffer = ""
  /\ autoClearEnabled = FALSE
  /\ submitMessage = ""
  /\ submits = [s \in 1..MaxSubmits |-> IdleSubmit]
  /\ cancels = [c \in 1..MaxCancels |-> "idle"]
  /\ timers = NoTimers

\* getAllTrades has not been called
TradesIdle ==
  /\ page = 0
  /\ allTrades = 0
  /\ gpc = [pc |-> "idle", result |-> [len |-> 0, total |-> 0]]

\* calculateClearPrice has not been applied
PriceIdle ==
  /\ costPrice = 0
  /\ orderBook = NoBook
  /\ clearPrice = NoPrice
  /\ calcDone = FALSE

\* three more inputs <<costPrice, bestBid, bestAsk>>: a narrow spread above cost, a wide
\* spread with the cost at the lowered target, and a narrow spread with the cost below
\* bestBid
ScenarioInputs == {<<9000, 9100, 9300>>, <<8500, 8000, 9500>>, <<9200, 9300, 9400>>}

InitPrice ==
  /\ \/ /\ costPrice \in LowBand \cup HighBand
        /\ orderBook \in [error : {""}, bids : BidLists, asks : AskLists]
     \/ \E sc \in ScenarioInputs :
          /\ costPrice = sc[1]
          /\ orderBook = [error |-> "", bids |-> <<Level(sc[2])>>, asks |-> <<Level(sc[3])>>]
  /\ clearPrice = NoPrice
  /\ calcDone = FALSE
  /\ MgrIdle
  /\ ReloadIdle
  /\ UpdIdle
  /\ DifferIdle
  /\ PollIdle
  /\ UiIdle
  /\ TradesIdle

Calculate ==
  /\ calcDone = FALSE
  /\ clearPrice' = calculateClearPrice(costPrice, orderBook)
  /\ calcDone' = TRUE
  /\ UNCHANGED <<costPrice, orderBook>>
  /\ UNCHANGED mgrVars
  /\ UNCHANGED <<reloadVars, updVars, differVars, pollVars>>
  /\ UNCHANGED <<uiVars, tradeVars>>

NextPrice == Calculate

SpecPrice == InitPrice /\ [][NextPrice]_vars

\* calculateClearPrice returned a price for a book with both sides non-empty
Returned ==
  /\ calcDone
  /\ orderBook.bids # NoList /\ Len(orderBook.bids) > 0
  /\ orderBook.asks # NoList /\ Len(orderBook.asks) > 0
  /\ clearPrice # NoPrice

\* C2: the price returned (after rounding) is strictly above bestBid.
C2_AboveBestBid ==
  Returned => clearPrice > orderBook.bids[1].price

\* C3: the price returned (after the 3-decimal rounding) is never below costPrice.
C3_NotBelowCost ==
  Returned => clearPrice >= costPrice

----------------------------------------------------------------------------
(* Inputs of Spec *)

\* params.price of trackOrder, a percentage ("90.00")
TrackPrices == {9000}

\* closedOrder.filled, "filledUsdt/totalUsdt"
ClosedFills == {<<10000, 10000>>, <<5000, 10000>>, <<0, 0>>}

\* closedOrder.status: 2 = filled, 6 = failed
ClosedStatuses == {ClosedFilled, 6}

ClosedOrders == [orderId : OrderIds, status : ClosedStatuses, filled : ClosedFills]

\* what getOrderBook returns to createReverseClearOrder: always with the two lists
Books ==
  { [error |-> "fetch failed", bids |-> <<>>, asks |-> <<>>],
    [error |-> "", bids |-> <<>>, asks |-> <<Level(9300)>>],
    [error |-> "", bids |-> <<Level(9100)>>, asks |-> <<>>],
    [error |-> "", bids |-> <<Level(9100)>>, asks |-> <<Level(9300)>>],
    [error |-> "", bids |-> <<Level(9300)>>, asks |-> <<Level(9300)>>] }

\* getTopicInfo / getOrderBookConfig throw, or getOrderBook returns
FetchResults == {[threw |-> TRUE, book |-> NoBook]} \cup {[threw |-> FALSE, book |-> b] : b \in Books}

\* sellByTopic: the exchange accepts and answers, rejects, or accepts and the answer is lost
SellResults == {"accepted", "rejected", "lost"}

----------------------------------------------------------------------------
(* Conversions *)

\* (clearPrice * 100).toFixed(2): the percentage with two decimals
ToPercent2(p) == ((p * 100) + 50) \div 100

\* filledShares.toFixed(4), in ten-thousandths of a share (round half up)
ToFixed4(s) ==
  LET whole == s.n \div s.d
      r == s.n % s.d
      frac == (r * 10000) \div s.d
      r2 == (r * 10000) % s.d
  IN whole * 10000 + frac + (IF 2 * r2 >= s.d THEN 1 ELSE 0)

\* filledUsdt / (trackedOrder.price / 100)
SharesOf(filledUsdt, price) == [n |-> filledUsdt * 10, d |-> price]

\* !filledShares || filledShares <= 0
InvalidShares(s) == s.n <= 0

\* a variant of the fill test that asks for more than 99.9 percent
FullyFilledStrict(filled) == filled[1] * FillDenom > filled[2] * FillNumer

\* filledUsdt >= totalUsdt * 0.999
FullyFilled(filled) == filled[1] * FillDenom >= filled[2] * FillNumer

----------------------------------------------------------------------------
(* AutoClearManager operations *)

\* a variant whose catch block records the message and leaves the status as it is
FailClearKeepsStatus(m, tk, msg) ==
  LET r == [ObjOf(m, tk) EXCEPT !.errorMessage = msg]
      m2 == PutObj(m, tk, r)
  IN <<m2, StartSave([KeepObj(tk, r) EXCEPT !.err = msg], m2, "crc_final")>>

\* the catch block of createReverseClearOrder followed by the save of its finally
FailClear(m, tk, msg) ==
  LET r == [ObjOf(m, tk) EXCEPT !.status = "error", !.errorMessage = msg]
      m2 == PutObj(m, tk, r)
  IN <<m2, StartSave([KeepObj(tk, r) EXCEPT !.err = msg], m2, "crc_final")>>

\* trackOrder up to the await of save
TrackOrderBody(t, id, side, price, ret) ==
  /\ clock < MaxTracks
  /\ LET m2 == [trackedOrders EXCEPT ![id] = NewOrder(side, price, clock + 1)]
     IN /\ trackedOrders' = m2
        /\ tasks' = [u \in Tasks |->
                       IF u = t
                       THEN StartSave([IdleTask EXCEPT !.ret = ret], m2, "track_save")
                       ELSE Detached(tasks[u], {id}, trackedOrders)]
  /\ clock' = clock + 1

\* trackOrder(params) called on the manager
TrackOrder(t, id, side, price) ==
  /\ tasks[t].pc = "idle"
  /\ TrackOrderBody(t, id, side, price, "none")
  /\ UNCHANGED <<doc, sells>>
  /\ UNCHANGED pureVars

\* removeTrackedOrder(orderId) up to the await of save
RemoveTrackedOrder(t, id) ==
  /\ tasks[t].pc = "idle"
  /\ Has(trackedOrders, id)
  /\ LET m2 == [trackedOrders EXCEPT ![id] = NoOrder]
     IN /\ trackedOrders' = m2
        /\ tasks' = [u \in Tasks |->
                       IF u = t
                       THEN StartSave(IdleTask, m2, "remove_save")
                       ELSE Detached(tasks[u], {id}, trackedOrders)]
  /\ UNCHANGED <<doc, sells, clock>>
  /\ UNCHANGED pureVars

\* clearAll() up to the await of save
ClearAll(t) ==
  /\ tasks[t].pc = "idle"
  /\ trackedOrders' = EmptyMap
  /\ tasks' = [u \in Tasks |->
                 IF u = t
                 THEN StartSave(IdleTask, EmptyMap, "clear_save")
                 ELSE Detached(tasks[u], OrderIds, trackedOrders)]
  /\ UNCHANGED <<doc, sells, clock>>
  /\ UNCHANGED pureVars

\* closedOrder co makes the loop of updateOrderStatus mark its tracked order filled
\* and call createReverseClearOrder: a variant without the check
\* trackedOrder.status !== 'pending'
TriggersAnyStatus(m, co) ==
  /\ Has(m, co.orderId)
  /\ co.status = ClosedFilled
  /\ FullyFilled(co.filled)

\* a variant without the check closedOrder.status === 2
TriggersAnyClosedStatus(m, co) ==
  /\ Has(m, co.orderId)
  /\ m[co.orderId].status = "pending"
  /\ FullyFilled(co.filled)

\* closedOrder co makes the loop of updateOrderStatus mark its tracked order filled
\* and call createReverseClearOrder
Triggers(m, co) ==
  /\ Has(m, co.orderId)
  /\ m[co.orderId].status = "pending"
  /\ co.status = ClosedFilled
  /\ FullyFilled(co.filled)

\* the closed orders the loop goes through in one synchronous run, from where it
\* stands to its next await or to the end of the list: every one but the last is
\* passed over
ClosedRuns == UNION {[1..k -> ClosedOrders] : k \in 0..MaxClosed}
NextRuns(tk) == IF tk.pc = "crc_final" THEN ClosedRuns ELSE {<<>>}
PassedOver(m, cos) == \A i \in 1..(Len(cos) - 1) : ~Triggers(m, cos[i])

\* a variant of the loop that leaves the order in status filled when it calls
\* createReverseClearOrder
LoopRunStaysFilled(m, tk, cos) ==
  IF cos # <<>> /\ Triggers(m, cos[Len(cos)])
  THEN LET co == cos[Len(cos)]
           o == co.orderId
           r == [m[o] EXCEPT !.status = "filled",
                             !.filledShares = SharesOf(co.filled[1], m[o].price),
                             !.filledUsdt = co.filled[1]]
           m2 == [m EXCEPT ![o] = r]
           tk2 == [IdleTask EXCEPT !.chg = TRUE, !.id = o, !.att = TRUE]
       IN <<m2, StartSave(tk2, m2, "crc_save1")>>
  ELSE <<m, IF tk.chg THEN StartSave(IdleTask, m, "uos_save") ELSE IdleTask>>

\* the loop of updateOrderStatus over cos: when the last one is a fully filled pending
\* tracked order, the loop marks it filled and runs into createReverseClearOrder up to
\* its first await (the save after status = 'clearing'); otherwise the list is at its
\* end and updateOrderStatus saves when hasChanges
LoopRun(m, tk, cos) ==
  IF cos # <<>> /\ Triggers(m, cos[Len(cos)])
  THEN LET co == cos[Len(cos)]
           o == co.orderId
           r == [m[o] EXCEPT !.status = "clearing",
                             !.filledShares = SharesOf(co.filled[1], m[o].price),
                             !.filledUsdt = co.filled[1]]
           m2 == [m EXCEPT ![o] = r]
           tk2 == [IdleTask EXCEPT !.chg = TRUE, !.id = o, !.att = TRUE]
       IN <<m2, StartSave(tk2, m2, "crc_save1")>>
  ELSE <<m, IF tk.chg THEN StartSave(IdleTask, m, "uos_save") ELSE IdleTask>>

\* a variant of the test of the order's side that sends every order on to the sale
IsSellOrderNever(obj) == FALSE

\* side !== 1: the order is a sell order and there is no inventory to clear
IsSellOrder(obj) == obj.side # BuySide

\* what follows the save of a task, up to its next await
AfterSave(m, tk, cos) ==
  CASE tk.pc = "track_save" ->
         <<m, IF tk.ret = "refresh" THEN [IdleTask EXCEPT !.pc = "open_fetch"] ELSE IdleTask>>
    [] tk.pc \in {"remove_save", "clear_save", "uos_save"} -> <<m, IdleTask>>
    [] tk.pc = "crc_save1" ->
         LET obj == ObjOf(m, tk)
         IN IF IsSellOrder(obj)
            THEN LET r == [obj EXCEPT !.status = "cleared"]
                     m2 == PutObj(m, tk, r)
                 IN <<m2, StartSave(KeepObj(tk, r), m2, "crc_save2")>>
            ELSE IF InvalidShares(obj.filledShares)
            THEN FailClear(m, tk, "invalid filled shares")
            ELSE <<m, [tk EXCEPT !.pc = "crc_fetch"]>>
    [] tk.pc = "crc_save2" -> <<m, StartSave(tk, m, "crc_final")>>
    [] tk.pc = "crc_final" -> LoopRun(m, tk, cos)

\* the fs.writeFile of a save completes (ok) or fails; save swallows the failure.
\* a variant in which a failed write puts the map back to the stored document
WriteDoneRollsBack(t, ok, cos) ==
  /\ tasks[t].pc \in SavePcs
  /\ tasks[t].pc = "crc_final" \/ cos = <<>>
  /\ PassedOver(trackedOrders, cos)
  /\ doc' = IF ok THEN tasks[t].snap ELSE doc
  /\ LET next == AfterSave(IF ok THEN trackedOrders ELSE doc, tasks[t], cos)
     IN /\ trackedOrders' = next[1]
        /\ tasks' = [tasks EXCEPT ![t] = next[2]]
  /\ UNCHANGED <<sells, clock>>
  /\ UNCHANGED pureVars

\* cos: the closed orders the loop of updateOrderStatus goes through next, when the
\* save is the last statement of createReverseClearOrder
WriteDone(t, ok, cos) ==
  /\ tasks[t].pc \in SavePcs
  /\ tasks[t].pc = "crc_final" \/ cos = <<>>
  /\ PassedOver(trackedOrders, cos)
  /\ doc' = IF ok THEN tasks[t].snap ELSE doc
  /\ LET next == AfterSave(trackedOrders, tasks[t], cos)
     IN /\ trackedOrders' = next[1]
        /\ tasks' = [tasks EXCEPT ![t] = next[2]]
  /\ UNCHANGED <<sells, clock>>
  /\ UNCHANGED pureVars

\* createReverseClearOrder from the order-book fetch to the call of sellByTopic
BookFetched(t, res) ==
  /\ tasks[t].pc = "crc_fetch"
  /\ LET tk == tasks[t]
         obj == ObjOf(trackedOrders, tk)
         price == calculateClearPrice(obj.price, res.book)
         got == [tk EXCEPT !.book = res.book]
         next == IF res.threw THEN FailClear(trackedOrders, tk, "topic info unavailable")
                 ELSE IF res.book.error # "" \/ res.book.bids = NoList \/ res.book.asks = NoList
                 THEN FailClear(trackedOrders, got, "order book unavailable")
                 ELSE IF price = NoPrice \/ price = 0 THEN FailClear(trackedOrders, got, "no safe price")
                 ELSE <<trackedOrders, [got EXCEPT !.pc = "crc_sell", !.cp = price]>>
     IN /\ trackedOrders' = next[1]
        /\ tasks' = [tasks EXCEPT ![t] = next[2]]
  /\ UNCHANGED <<doc, sells, clock>>
  /\ UNCHANGED pureVars

\* a variant that quotes the cost price instead of the computed clearing price
SellOrderAtCost(tk, obj) ==
  [orderId |-> tk.id, trackedAt |-> obj.trackedAt,
   limitPrice |-> ToPercent2(obj.price), shares |-> ToFixed4(obj.filledShares)]

\* the sell order as the exchange receives it
SellOrder(tk, obj) ==
  [orderId |-> tk.id, trackedAt |-> obj.trackedAt,
   limitPrice |-> ToPercent2(tk.cp), shares |-> ToFixed4(obj.filledShares)]

\* createReverseClearOrder from the return of sellByTopic to the save of its finally
SellReturns(t, res) ==
  /\ tasks[t].pc = "crc_sell"
  /\ LET tk == tasks[t]
         obj == ObjOf(trackedOrders, tk)
         r == [obj EXCEPT !.status = "cleared",
                          !.reverseOrderId = Len(sells) + 1,
                          !.reversePrice = tk.cp,
                          !.reverseShares = obj.filledShares,
                          !.clearedAt = TRUE]
         m2 == PutObj(trackedOrders, tk, r)
         next == IF res = "accepted"
                 THEN <<m2, StartSave(KeepObj(tk, r), m2, "crc_final")>>
                 ELSE FailClear(trackedOrders, tk,
                                IF res = "rejected" THEN "order rejected" ELSE "no response")
     IN /\ trackedOrders' = next[1]
        /\ tasks' = [tasks EXCEPT ![t] = next[2]]
        /\ sells' = IF res = "rejected" THEN sells ELSE Append(sells, SellOrder(tk, obj))
  /\ UNCHANGED <<doc, clock>>
  /\ UNCHANGED pureVars

----------------------------------------------------------------------------
(* TradingDashboard: what starts a poll cycle, and the cycle *)

\* a task is in refreshOpenOrders: from the call of getOpenOrders to the return of
\* updateOrderStatus
InCycle(tk) ==
  tk.pc \in {"open_fetch", "closed_fetch", "crc_save1", "crc_save2",
             "crc_fetch", "crc_sell", "crc_final", "uos_save"}

\* this.refresh(), called and not awaited by the setInterval callback of start() and
\* by the R key, up to the await in refreshOpenOrders (sdk.getOpenOrders)
StartRefresh(t) ==
  /\ tasks[t].pc = "idle"
  /\ tasks' = [tasks EXCEPT ![t] = [IdleTask EXCEPT !.pc = "open_fetch"]]
  /\ UNCHANGED <<trackedOrders, doc, sells, clock>>
  /\ UNCHANGED pureVars

\* Enter in confirm mode: submitOrder up to the await of buyByTopic / sellByTopic;
\* interactionMode = 'submitting' keeps a second submitOrder from starting
SubmitOrder(t) ==
  /\ tasks[t].pc = "idle"
  /\ \A u \in Tasks : tasks[u].pc # "buy"
  /\ tasks' = [tasks EXCEPT ![t] = [IdleTask EXCEPT !.pc = "buy"]]
  /\ UNCHANGED <<trackedOrders, doc, sells, clock>>
  /\ UNCHANGED pureVars

\* the order is placed and submitOrder goes on to trackOrder (a buy with auto clear
\* enabled, side 1) and then to refresh
BuyTracked(t, id, price) ==
  /\ tasks[t].pc = "buy"
  /\ TrackOrderBody(t, id, BuySide, price, "refresh")
  /\ UNCHANGED <<doc, sells>>
  /\ UNCHANGED pureVars

\* the order is placed without tracking (ok), or the submission throws
BuyReturns(t, ok) ==
  /\ tasks[t].pc = "buy"
  /\ tasks' = [tasks EXCEPT ![t] = IF ok THEN [IdleTask EXCEPT !.pc = "open_fetch"] ELSE IdleTask]
  /\ UNCHANGED <<trackedOrders, doc, sells, clock>>
  /\ UNCHANGED pureVars

\* y in confirmCancel mode: executeCancelOrder up to the await of sdk.cancelOrder
CancelOrder(t) ==
  /\ tasks[t].pc = "idle"
  /\ \A u \in Tasks : tasks[u].pc # "cancel"
  /\ tasks' = [tasks EXCEPT ![t] = [IdleTask EXCEPT !.pc = "cancel"]]
  /\ UNCHANGED <<trackedOrders, doc, sells, clock>>
  /\ UNCHANGED pureVars

\* cancelOrder returns and executeCancelOrder calls refresh (ok), or it throws
CancelReturns(t, ok) ==
  /\ tasks[t].pc = "cancel"
  /\ tasks' = [tasks EXCEPT ![t] = IF ok THEN [IdleTask EXCEPT !.pc = "open_fetch"] ELSE IdleTask]
  /\ UNCHANGED <<trackedOrders, doc, sells, clock>>
  /\ UNCHANGED pureVars

\* refreshOpenOrders: getOpenOrders returns and getClosedOrders is called (ok), or it
\* throws and the catch block ends the reconciliation
OpenFetched(t, ok) ==
  /\ tasks[t].pc = "open_fetch"
  /\ tasks' = [tasks EXCEPT ![t] = IF ok THEN [IdleTask EXCEPT !.pc = "closed_fetch"] ELSE IdleTask]
  /\ UNCHANGED <<trackedOrders, doc, sells, clock>>
  /\ UNCHANGED pureVars

\* refreshOpenOrders: getClosedOrders throws and the catch block ends the reconciliation
ClosedFailed(t) ==
  /\ tasks[t].pc = "closed_fetch"
  /\ tasks' = [tasks EXCEPT ![t] = IdleTask]
  /\ UNCHANGED <<trackedOrders, doc, sells, clock>>
  /\ UNCHANGED pureVars

\* refreshOpenOrders: getClosedOrders returns and updateOrderStatus(closedOrders.list)
\* runs to its first await or to its return (at once when the list is empty)
ClosedFetched(t, cos) ==
  /\ tasks[t].pc = "closed_fetch"
  /\ PassedOver(trackedOrders, cos)
  /\ LET next == LoopRun(trackedOrders, IdleTask, cos)
     IN /\ trackedOrders' = next[1]
        /\ tasks' = [tasks EXCEPT ![t] = next[2]]
  /\ UNCHANGED <<doc, sells, clock>>
  /\ UNCHANGED pureVars

----------------------------------------------------------------------------
(* Spec: the manager driven by the dashboard and by calls of its operations *)

Init ==
  /\ MgrIdle
  /\ PriceIdle
  /\ ReloadIdle
  /\ UpdIdle
  /\ DifferIdle
  /\ PollIdle
  /\ UiIdle
  /\ TradesIdle

\* every step but the completion of a file write
Step(t) ==
    \/ StartRefresh(t)
    \/ SubmitOrder(t)
    \/ \E id \in OrderIds, price \in TrackPrices : BuyTracked(t, id, price)
    \/ \E ok \in BOOLEAN : BuyReturns(t, ok)
    \/ CancelOrder(t)
    \/ \E ok \in BOOLEAN : CancelReturns(t, ok)
    \/ \E ok \in BOOLEAN : OpenFetched(t, ok)
    \/ ClosedFailed(t)
    \/ \E cos \in ClosedRuns : ClosedFetched(t, cos)
    \/ \E res \in FetchResults : BookFetched(t, res)
    \/ \E res \in SellResults : SellReturns(t, res)
    \/ \E id \in OrderIds, side \in {BuySide, 2}, price \in TrackPrices : TrackOrder(t, id, side, price)
    \/ \E id \in OrderIds : RemoveTrackedOrder(t, id)
    \/ ClearAll(t)

\* a file write succeeds or fails
Next ==
  \E t \in Tasks :
    \/ Step(t)
    \/ \E ok \in BOOLEAN, cos \in NextRuns(tasks[t]) : WriteDone(t, ok, cos)

Spec == Init /\ [][Next]_vars

\* every file write succeeds
NextWritesOk ==
  \E t \in Tasks :
    \/ Step(t)
    \/ \E cos \in NextRuns(tasks[t]) : WriteDone(t, TRUE, cos)

SpecWritesOk == Init /\ [][NextWritesOk]_vars

----------------------------------------------------------------------------
(* Properties of the registry, the clearing and the poll cycle *)

Rank(st) ==
  CASE st = "pending" -> 1
    [] st = "filled" -> 2
    [] st = "clearing" -> 3
    [] st \in {"cleared", "error"} -> 4

\* C1: the status of a tracked order only moves forward along
\* pending -> filled -> clearing -> {cleared | error}, and becomes cleared only from
\* clearing.
C1_StatusForward ==
  [][\A o \in OrderIds :
       (Has(trackedOrders, o) /\ Has(trackedOrders', o)) =>
         LET a == trackedOrders[o].status
             b == trackedOrders'[o].status
         IN a = b \/ (Rank(b) > Rank(a) /\ (b = "cleared" => a = "clearing"))]_vars

\* the sells the exchange accepted for the order record (orderId o, tracked at time at)
SellsFor(o, at) ==
  {i \in 1..Len(sells) : sells[i].orderId = o /\ sells[i].trackedAt = at}

\* the failures of createReverseClearOrder that happen before sellByTopic is called
PreSubmitErrors ==
  {"invalid filled shares", "topic info unavailable", "order book unavailable", "no safe price"}

C7_ClearingStoredBeforeSell ==
  \A t \in Tasks :
    (tasks[t].pc = "crc_sell" /\ tasks[t].att /\ Has(doc, tasks[t].id)) =>
      doc[tasks[t].id].status \notin {"pending", "filled"}

C9_NoCycleOverlap ==
  Cardinality({t \in Tasks : InCycle(tasks[t])}) <= 1

\* no operation and no write is in flight
Quiescent == \A t \in Tasks : tasks[t].pc = "idle"

\* C10: whenever no registry operation and no write is in flight, the stored document
\* equals the in-memory map (writes succeed).
C10_DocMirrorsMap ==
  Quiescent => doc = Serialize(trackedOrders)

\* a step is the synchronous part of removeTrackedOrder or of clearAll
RemovalStep ==
  \E t \in Tasks :
    /\ tasks[t].pc = "idle"
    /\ tasks'[t].pc \in {"remove_save", "clear_save"}

\* a step is the synchronous part of trackOrder
TrackStep == clock' # clock

\* C12: trackOrder with an orderId that is already tracked creates and overwrites
\* nothing: the existing record (status, filledShares, reverse-order fields,
\* trackedAt) is left as it is.
C12_TrackExistingKeepsRecord ==
  [][TrackStep =>
       \A o \in OrderIds :
         Has(trackedOrders, o) => trackedOrders'[o] = trackedOrders[o]]_vars

\* C13: once the status of a tracked order is cleared or error, no step other than
\* removeTrackedOrder or clearAll changes its status or removes it.
C13_TerminalStays ==
  [][\A o \in OrderIds :
       (trackedOrders[o].status \in {"cleared", "error"} /\ ~RemovalStep) =>
         trackedOrders'[o].status = trackedOrders[o].status]_vars

\* C14: a tracked order enters status error only from status clearing.
C14_ErrorOnlyFromClearing ==
  [][\A o \in OrderIds :
       (trackedOrders'[o].status = "error" /\ trackedOrders[o].status # "error") =>
         trackedOrders[o].status = "clearing"]_vars

\* a clearing order whose sell the exchange rejected is in status error
C14_Witness ==
  \E o \in OrderIds :
    /\ trackedOrders[o].status = "error"
    /\ trackedOrders[o].errorMessage = "order rejected"

\* C15: for a tracked order with side = SELL no sell is ever submitted, no order book
\* is fetched and the order is never in error; once createReverseClearOrder has run
\* for it, it is cleared with no reverse order id.
C15_SellOrderNeverCleared ==
  /\ \A o \in OrderIds :
       (Has(trackedOrders, o) /\ trackedOrders[o].side # BuySide) =>
         /\ trackedOrders[o].status \in {"pending", "clearing", "cleared"}
         /\ trackedOrders[o].reverseOrderId = 0
         /\ SellsFor(o, trackedOrders[o].trackedAt) = {}
  /\ \A t \in Tasks :
       LET tk == tasks[t]
           obj == ObjOf(trackedOrders, tk)
       IN (Holding(tk) /\ obj.side # BuySide) =>
            /\ tk.pc \notin {"crc_fetch", "crc_sell"}
            /\ obj.status \in {"clearing", "cleared"}
            /\ obj.reverseOrderId = 0
            /\ SellsFor(tk.id, obj.trackedAt) = {}
            /\ tk.pc = "crc_final" => obj.status = "cleared"

\* a fully filled SELL order is cleared and createReverseClearOrder is at the save of
\* its finally block
C15_Witness ==
  \E t \in Tasks :
    /\ tasks[t].pc = "crc_final"
    /\ tasks[t].att
    /\ trackedOrders[tasks[t].id].side # BuySide
    /\ trackedOrders[tasks[t].id].status = "cleared"
    /\ trackedOrders[tasks[t].id].filledUsdt = 10000

----------------------------------------------------------------------------
(* SpecReload: save, then initialize on a fresh manager, then save again *)

\* a key of the Map: the orderId as trackOrder received it, a number or a string of
\* digits; v is its value
NumberKey(v) == [type |-> "number", v |-> v]
MapKeys == [type : {"number", "string"}, v : 1..MaxKey]

\* an orderId that is undefined, and NaN as a key
UndefinedKey == [type |-> "undefined", v |-> 0]
NaNKey == [type |-> "NaN", v |-> 0]

\* the property name Object.fromEntries makes of a key: its decimal text, written v;
\* 0 stands for the text "undefined"
KeyString(k) == k.v

\* parseInt(orderId) of initialize on a property name
ParseIntKey(str) == IF str = 0 THEN NaNKey ELSE NumberKey(str)

\* parseFloat of params.price
ParseFloat(str) == IF str = "90.00" THEN 9000 ELSE NotANumber

\* null in the document, where a share count is expected
NullShares == [n |-> 0 - 1, d |-> 0]

\* JSON.stringify of a number: Infinity (a positive amount divided by a price of 0) is
\* written as null; an undefined field is left out and reads as undefined again
JsonShares(sh) == IF sh.d = 0 /\ sh.n > 0 THEN NullShares ELSE sh

\* JSON.stringify of one orderInfo, read back by JSON.parse
JsonRecord(r) ==
  [r EXCEPT !.filledShares = JsonShares(r.filledShares),
            !.reverseShares = JsonShares(r.reverseShares),
            !.price = IF r.price = NotANumber THEN Unset ELSE r.price]

\* JSON.stringify(Object.fromEntries(this.trackedOrders)): one property per key text,
\* a later entry of the same text replacing an earlier one
Stringify(entries) ==
  LET names == {KeyString(entries[i].key) : i \in 1..Len(entries)}
      last(nm) == CHOOSE i \in 1..Len(entries) :
                    /\ KeyString(entries[i].key) = nm
                    /\ \A j \in 1..Len(entries) : KeyString(entries[j].key) = nm => j <= i
  IN [nm \in names |-> JsonRecord(entries[last(nm)].rec)]

\* the loop of initialize over Object.entries(stored), which lists integer property
\* names in ascending order and the other names after them:
\* this.trackedOrders.set(parseInt(orderId), orderInfo)
RECURSIVE LoadFrom(_, _)
LoadFrom(stored, from) ==
  IF from > MaxKey THEN <<>>
  ELSE IF from \in DOMAIN stored
       THEN <<[key |-> ParseIntKey(from), rec |-> stored[from]]>> \o LoadFrom(stored, from + 1)
       ELSE LoadFrom(stored, from + 1)
Load(stored) ==
  LoadFrom(stored, 1) \o
    (IF 0 \in DOMAIN stored THEN <<[key |-> ParseIntKey(0), rec |-> stored[0]]>> ELSE <<>>)

\* this.trackedOrders.has(orderId) / get(orderId) on a Map given by its entries
HasKey(entries, k) == \E i \in 1..Len(entries) : entries[i].key = k
Entries(entries) == {entries[i] : i \in 1..Len(entries)}

\* the records a manager holds: as trackOrder makes them (price 0 to 100 percent), and
\* after updateOrderStatus has found them fully filled
ReloadPrices == {0, 9000}
ReloadRecords ==
  UNION { { NewOrder(BuySide, pr, 1),
            [NewOrder(BuySide, pr, 1) EXCEPT !.status = "clearing",
                                             !.filledShares = SharesOf(10000, pr),
                                             !.filledUsdt = 10000] } : pr \in ReloadPrices }

\* the maps a manager holds: up to MaxKey entries under distinct keys
ReloadMaps ==
  { m \in UNION {[1..k -> [key : MapKeys, rec : ReloadRecords]] : k \in 0..MaxKey} :
      \A i, j \in 1..Len(m) : i # j => m[i].key # m[j].key }

InitReload ==
  /\ memMap \in ReloadMaps
  /\ file = <<>>
  /\ loadedMap = <<>>
  /\ file2 = <<>>
  /\ phase = "start"
  /\ MgrIdle
  /\ PriceIdle
  /\ UpdIdle
  /\ DifferIdle
  /\ PollIdle
  /\ UiIdle
  /\ TradesIdle

\* this.trackedOrders.set(orderId, orderInfo) on a Map given by its entries
EntrySet(entries, k, r) ==
  IF HasKey(entries, k)
  THEN [i \in 1..Len(entries) |-> IF entries[i].key = k THEN [key |-> k, rec |-> r] ELSE entries[i]]
  ELSE Append(entries, [key |-> k, rec |-> r])

\* the Map after trackOrder(params)
TrackedMap(entries, params) ==
  EntrySet(entries, params.orderId, NewOrder(BuySide, ParseFloat(params.price), 1))

\* the params of a trackOrder call: orderId a number, a string of digits or undefined,
\* price a decimal text or a text that is no number
TrackParams == [orderId : MapKeys \cup {UndefinedKey}, price : {"90.00", "abc"}]

\* trackOrder(params) on the manager holding memMap, the write of its save succeeding
TrackOrderCall(params) ==
  /\ phase = "start"
  /\ Len(memMap) < MaxKey \/ HasKey(memMap, params.orderId)
  /\ memMap' = TrackedMap(memMap, params)
  /\ file' = Stringify(memMap')
  /\ UNCHANGED <<loadedMap, file2, phase>>
  /\ UNCHANGED <<mgrVars, priceVars, updVars, differVars, pollVars>>
  /\ UNCHANGED <<uiVars, tradeVars>>

\* save() of the manager holding memMap, its write succeeding
SaveMap ==
  /\ phase = "start"
  /\ file' = Stringify(memMap)
  /\ phase' = "saved"
  /\ UNCHANGED <<memMap, loadedMap, file2>>
  /\ UNCHANGED <<mgrVars, priceVars, updVars, differVars, pollVars>>
  /\ UNCHANGED <<uiVars, tradeVars>>

\* initialize() of a fresh manager on that document
Initialize ==
  /\ phase = "saved"
  /\ loadedMap' = Load(file)
  /\ phase' = "loaded"
  /\ UNCHANGED <<memMap, file, file2>>
  /\ UNCHANGED <<mgrVars, priceVars, updVars, differVars, pollVars>>
  /\ UNCHANGED <<uiVars, tradeVars>>

\* save() of the fresh manager
SaveAgain ==
  /\ phase = "loaded"
  /\ file2' = Stringify(loadedMap)
  /\ phase' = "resaved"
  /\ UNCHANGED <<memMap, file, loadedMap>>
  /\ UNCHANGED <<mgrVars, priceVars, updVars, differVars, pollVars>>
  /\ UNCHANGED <<uiVars, tradeVars>>

NextReload ==
  \/ \E params \in TrackParams : TrackOrderCall(params)
  \/ SaveMap
  \/ Initialize
  \/ SaveAgain

SpecReload == InitReload /\ [][NextReload]_vars

\* C11: save followed by initialize on a fresh manager reproduces the same map (same
\* keys, same field values), save -> load -> save writes an identical document, and
\* every order tracked before the reload is found under its orderId after it.
C11_RoundTrip ==
  phase = "resaved" =>
    /\ Entries(loadedMap) = Entries(memMap)
    /\ file2 = file
    /\ \A i \in 1..Len(memMap) : HasKey(loadedMap, memMap[i].key)

----------------------------------------------------------------------------
(* SpecUpdate: one call of updateOrderStatus, statement by statement, on a drawn map *)
(* and a drawn closed-order list; nothing else runs during the call                 *)

UpdIds == 1..MaxUpdId

\* the tracked orders the call finds: none, pending (BUY or SELL), and orders an
\* earlier call left in clearing or error
UpdRecords ==
  { NoOrder,
    NewOrder(BuySide, 9000, 1),
    NewOrder(2, 9000, 1),
    [NewOrder(BuySide, 9000, 1) EXCEPT !.status = "clearing",
                                       !.filledShares = SharesOf(10000, 9000),
                                       !.filledUsdt = 10000],
    [NewOrder(BuySide, 9000, 1) EXCEPT !.status = "error",
                                       !.filledShares = SharesOf(10000, 9000),
                                       !.filledUsdt = 10000,
                                       !.errorMessage = "no safe price"] }

\* filled "x/y" of a closed order: all of it, exactly 99.9 percent, just below
UpdFills == {<<10000, 10000>>, <<9990, 10000>>, <<9989, 10000>>}
UpdClosedOrders == [orderId : UpdIds, status : ClosedStatuses, filled : UpdFills]
UpdLists == UNION {[1..k -> UpdClosedOrders] : k \in 0..MaxList}

\* the document a save writes for a map over UpdIds
SerializeAll(m) == [o \in DOMAIN m |-> IF Has(m, o) THEN m[o] ELSE NoOrder]

\* the call finds the manager initialized, its document as its last save wrote it, or
\* not yet initialized, with the document of an earlier run
InitUpdate ==
  /\ \/ /\ isInitialized = TRUE
        /\ trackedOrders \in [UpdIds -> UpdRecords]
        /\ doc = trackedOrders
     \/ /\ isInitialized = FALSE
        /\ trackedOrders = [o \in UpdIds |-> NoOrder]
        /\ doc \in [UpdIds -> UpdRecords]
  /\ tasks = [t \in Tasks |-> IdleTask]
  /\ sells = <<>>
  /\ clock = 0
  /\ closedList \in UpdLists \cup {NoList}
  /\ idx = 0
  /\ upc = "entry"
  /\ hasChanges = FALSE
  /\ writes = 0
  /\ PriceIdle
  /\ ReloadIdle
  /\ DifferIdle
  /\ PollIdle
  /\ UiIdle
  /\ TradesIdle

\* if (!this.isInitialized) await this.initialize(): the stored orders are set into the
\* map (ok), or the document cannot be read and the map stays as it is
UpdInitialize(ok) ==
  /\ upc = "entry"
  /\ ~isInitialized
  /\ isInitialized' = TRUE
  /\ trackedOrders' =
       IF ok
       THEN [o \in UpdIds |-> IF Has(doc, o) THEN JsonRecord(doc[o]) ELSE trackedOrders[o]]
       ELSE trackedOrders
  /\ UNCHANGED <<doc, tasks, sells, clock>>
  /\ UNCHANGED updVars
  /\ UNCHANGED <<priceVars, reloadVars, differVars, pollVars>>
  /\ UNCHANGED <<uiVars, tradeVars>>

\* updateOrderStatus(closedOrders) up to the loop: the early return on a missing or
\* empty list
UpdEntry ==
  /\ upc = "entry"
  /\ isInitialized
  /\ IF closedList = NoList \/ Len(closedList) = 0
     THEN upc' = "done" /\ idx' = idx
     ELSE upc' = "loop" /\ idx' = 1
  /\ UNCHANGED <<closedList, hasChanges, writes>>
  /\ UNCHANGED <<mgrVars, priceVars, reloadVars, differVars, pollVars>>
  /\ UNCHANGED <<uiVars, tradeVars>>

\* one iteration of the loop up to the call of createReverseClearOrder
UpdExamine ==
  /\ upc = "loop"
  /\ idx <= Len(closedList)
  /\ LET co == closedList[idx]
         o == co.orderId
     IN IF Triggers(trackedOrders, co)
        THEN /\ trackedOrders' =
                  [trackedOrders EXCEPT
                     ![o] = [@ EXCEPT !.status = "filled",
                                      !.filledShares = SharesOf(co.filled[1], trackedOrders[o].price),
                                      !.filledUsdt = co.filled[1]]]
             /\ hasChanges' = TRUE
             /\ upc' = "call"
             /\ idx' = idx
        ELSE /\ idx' = idx + 1
             /\ UNCHANGED <<trackedOrders, hasChanges, upc>>
  /\ UNCHANGED <<closedList, writes>>
  /\ UNCHANGED <<doc, tasks, sells, clock>>
  /\ UNCHANGED <<priceVars, reloadVars, differVars, pollVars, isInitialized>>
  /\ UNCHANGED <<uiVars, tradeVars>>

\* createReverseClearOrder(trackedOrder) up to its first await: status = 'clearing'
\* and save
UpdCallClear ==
  /\ upc = "call"
  /\ trackedOrders' = [trackedOrders EXCEPT ![closedList[idx].orderId].status = "clearing"]
  /\ doc' = SerializeAll(trackedOrders')
  /\ writes' = writes + 1
  /\ upc' = "await"
  /\ UNCHANGED <<closedList, idx, hasChanges>>
  /\ UNCHANGED <<tasks, sells, clock>>
  /\ UNCHANGED <<priceVars, reloadVars, differVars, pollVars, isInitialized>>
  /\ UNCHANGED <<uiVars, tradeVars>>

\* createReverseClearOrder returns, the order cleared or in error (a SELL order:
\* cleared, after a save of its own); the save of the finally block; the loop goes on.
\* The fetches and the sale in between are the steps BookFetched and SellReturns of Spec
UpdClearReturns(result) ==
  /\ upc = "await"
  /\ LET o == closedList[idx].orderId
     IN /\ IsSellOrder(trackedOrders[o]) => result = "cleared"
        /\ trackedOrders' = [trackedOrders EXCEPT ![o].status = result]
        /\ writes' = writes + (IF IsSellOrder(trackedOrders[o]) THEN 2 ELSE 1)
  /\ doc' = SerializeAll(trackedOrders')
  /\ idx' = idx + 1
  /\ upc' = "loop"
  /\ UNCHANGED <<closedList, hasChanges>>
  /\ UNCHANGED <<tasks, sells, clock>>
  /\ UNCHANGED <<priceVars, reloadVars, differVars, pollVars, isInitialized>>
  /\ UNCHANGED <<uiVars, tradeVars>>

\* the end of the loop: save when hasChanges, and return
UpdEnd ==
  /\ upc = "loop"
  /\ idx > Len(closedList)
  /\ upc' = "done"
  /\ IF hasChanges
     THEN doc' = SerializeAll(trackedOrders) /\ writes' = writes + 1
     ELSE UNCHANGED <<doc, writes>>
  /\ UNCHANGED <<closedList, idx, hasChanges>>
  /\ UNCHANGED <<trackedOrders, tasks, sells, clock>>
  /\ UNCHANGED <<priceVars, reloadVars, differVars, pollVars, isInitialized>>
  /\ UNCHANGED <<uiVars, tradeVars>>

NextUpdate ==
  \/ \E ok \in BOOLEAN : UpdInitialize(ok)
  \/ UpdEntry
  \/ UpdExamine
  \/ UpdCallClear
  \/ \E result \in {"cleared", "error"} : UpdClearReturns(result)
  \/ UpdEnd

SpecUpdate == InitUpdate /\ [][NextUpdate]_vars

\* the loop is at a closed order whose orderId is that of a pending tracked order
AtPendingMatch ==
  /\ upc = "loop"
  /\ idx <= Len(closedList)
  /\ Has(trackedOrders, closedList[idx].orderId)
  /\ trackedOrders[closedList[idx].orderId].status = "pending"

\* the iteration marks the order filled, with filledUsdt and
\* filledShares = filledUsdt / (price / 100), and goes on to createReverseClearOrder
MarksFilled ==
  LET co == closedList[idx]
      o == co.orderId
      r == trackedOrders[o]
  IN /\ trackedOrders' =
          [trackedOrders EXCEPT
             ![o] = [r EXCEPT !.status = "filled",
                              !.filledUsdt = co.filled[1],
                              !.filledShares = [n |-> co.filled[1] * 10, d |-> r.price]]]
     /\ upc' = "call"

\* createReverseClearOrder is entered for the order just marked filled
ClearingInvoked ==
  upc = "call" =>
    /\ trackedOrders[closedList[idx].orderId].status = "filled"
    /\ trackedOrders'[closedList[idx].orderId].status = "clearing"
    /\ upc' = "await"

C17_OnlyStatusTwoTriggers ==
  [][/\ (AtPendingMatch /\ closedList[idx].status # 2) =>
          trackedOrders' = trackedOrders /\ upc' = "loop"
     /\ (upc = "loop" /\ upc' = "call") => closedList[idx].status = 2]_vars

\* the loop has passed a closed order of status 6, filled in full, whose tracked order
\* is pending
C17_Witness ==
  /\ upc = "loop"
  /\ idx = 2
  /\ closedList[1].status = 6
  /\ closedList[1].filled = <<10000, 10000>>
  /\ trackedOrders[closedList[1].orderId].status = "pending"

----------------------------------------------------------------------------
(* SpecDiffer: detectOrderChanges on successive open-order snapshots.  Amounts are   *)
(* written in units of 0.00001.  The labels of an event (side, outcome, price,      *)
(* title) are copied from the order and are left out.                               *)

DiffIds == 1..MaxDiffId

\* filled of an open order: nothing, 98.9, 98.996 and 99.5 percent of its amount
DiffFills == {0, 98900, 98996, 99500}
DiffAmounts == {100000}
OpenOrders == [orderId : DiffIds, filled : DiffFills, amount : DiffAmounts]

\* what getOpenOrders hands to detectOrderChanges: a result with a list, or one
\* without (missing)
NoSnapshot == [list |-> <<>>, missing |-> TRUE]
Snapshots ==
  {NoSnapshot} \cup
  {[list |-> l, missing |-> FALSE] : l \in UNION {[1..k -> OpenOrders] : k \in 0..MaxOpen}}

\* x.toFixed(4), read back by parseFloat
Fixed4(x) == ((x + 5) \div 10) * 10

\* Map.has / Map.get / Map.set on a Map given by its entries in insertion order
MapHas(m, k) == \E i \in 1..Len(m) : m[i].key = k
MapGet(m, k) == LET i == CHOOSE i \in 1..Len(m) : m[i].key = k IN m[i].val

\* a variant of Map.set that keeps the value of a key already present
MapSetKeepsFirst(m, k, v) ==
  IF MapHas(m, k) THEN m ELSE Append(m, [key |-> k, val |-> v])

MapSet(m, k, v) ==
  IF MapHas(m, k)
  THEN [i \in 1..Len(m) |-> IF m[i].key = k THEN [key |-> k, val |-> v] ELSE m[i]]
  ELSE Append(m, [key |-> k, val |-> v])

\* currentOrders.list.forEach(order => currentOrdersMap.set(order.orderId, order))
RECURSIVE BuildMap(_)
BuildMap(list) ==
  IF list = <<>> THEN <<>>
  ELSE LET last == list[Len(list)]
       IN MapSet(BuildMap(SubSeq(list, 1, Len(list) - 1)), last.orderId, last)

\* isFilled of an order that left the snapshot
IsFilled(prevOrder) ==
  Fixed4(prevOrder.filled) * FillTolDenom >= Fixed4(prevOrder.amount) * FillTolNumer

\* the event of an order that left the snapshot
RemovalEvent(prevOrder) ==
  [type |-> IF IsFilled(prevOrder) THEN "order_filled" ELSE "order_removed",
   orderId |-> prevOrder.orderId,
   amount |-> Fixed4(prevOrder.amount),
   filled |-> Fixed4(prevOrder.filled),
   filledAmount |-> Unset]

\* a variant that reports progress whenever the order is in both snapshots
ProgressEventsAlways(prevOrder, currentOrder) ==
  <<[type |-> "order_partially_filled",
     orderId |-> currentOrder.orderId,
     amount |-> Fixed4(currentOrder.amount),
     filled |-> Fixed4(currentOrder.filled),
     filledAmount |-> Fixed4(currentOrder.filled - prevOrder.filled)]>>

\* the events of an order that is in both snapshots
ProgressEvents(prevOrder, currentOrder) ==
  IF currentOrder.filled > prevOrder.filled
  THEN <<[type |-> "order_partially_filled",
          orderId |-> currentOrder.orderId,
          amount |-> Fixed4(currentOrder.amount),
          filled |-> Fixed4(currentOrder.filled),
          filledAmount |-> Fixed4(currentOrder.filled - prevOrder.filled)]>>
  ELSE <<>>

\* this.previousOrdersMap.forEach(...): the events of the entries from position i on
RECURSIVE PreviousPass(_, _, _)
PreviousPass(prevMap, curMap, i) ==
  IF i > Len(prevMap) THEN <<>>
  ELSE LET prevOrder == prevMap[i].val
           evs == IF MapHas(curMap, prevMap[i].key)
                  THEN ProgressEvents(prevOrder, MapGet(curMap, prevMap[i].key))
                  ELSE <<RemovalEvent(prevOrder)>>
       IN evs \o PreviousPass(prevMap, curMap, i + 1)

\* the Telegram notifications of the same loop: notifyOrderFilled for a filled order,
\* notifyOrderRemoved for a removed one unless it was cancelled by hand
RECURSIVE NotifyPass(_, _, _, _)
NotifyPass(prevMap, curMap, cancelled, i) ==
  IF i > Len(prevMap) THEN <<>>
  ELSE LET prevOrder == prevMap[i].val
           ns == IF MapHas(curMap, prevMap[i].key) THEN <<>>
                 ELSE IF IsFilled(prevOrder)
                 THEN <<[type |-> "filled", orderId |-> prevMap[i].key]>>
                 ELSE IF prevMap[i].key \notin cancelled
                 THEN <<[type |-> "removed", orderId |-> prevMap[i].key]>>
                 ELSE <<>>
       IN ns \o NotifyPass(prevMap, curMap, cancelled, i + 1)

\* a variant that reports no creation while there is no previous snapshot
RECURSIVE CurrentPassQuietFirstCycle(_, _, _)
CurrentPassQuietFirstCycle(curMap, prevMap, i) ==
  IF i > Len(curMap) \/ prevMap = <<>> THEN <<>>
  ELSE LET evs == IF MapHas(prevMap, curMap[i].key) THEN <<>>
                  ELSE <<[type |-> "order_created",
                          orderId |-> curMap[i].key,
                          amount |-> Fixed4(curMap[i].val.amount),
                          filled |-> Unset,
                          filledAmount |-> Unset]>>
       IN evs \o CurrentPassQuietFirstCycle(curMap, prevMap, i + 1)

\* currentOrdersMap.forEach(...): order_created for the entries not in the previous map
RECURSIVE CurrentPass(_, _, _)
CurrentPass(curMap, prevMap, i) ==
  IF i > Len(curMap) THEN <<>>
  ELSE LET evs == IF MapHas(prevMap, curMap[i].key) THEN <<>>
                  ELSE <<[type |-> "order_created",
                          orderId |-> curMap[i].key,
                          amount |-> Fixed4(curMap[i].val.amount),
                          filled |-> Unset,
                          filledAmount |-> Unset]>>
       IN evs \o CurrentPass(curMap, prevMap, i + 1)

\* a variant of addEvent that drops the new event once the history is full
AddEventKeepsOldest(history, event) ==
  IF Len(history) >= MaxEventHistory THEN history ELSE Append(history, event)

\* addEvent: push, then shift while the history is longer than MAX_EVENT_HISTORY
AddEvent(history, event) ==
  LET pushed == Append(history, event)
  IN IF Len(pushed) > MaxEventHistory
     THEN SubSeq(pushed, Len(pushed) - MaxEventHistory + 1, Len(pushed))
     ELSE pushed

RECURSIVE AddEvents(_, _)
AddEvents(history, events) ==
  IF events = <<>> THEN history
  ELSE AddEvents(AddEvent(history, Head(events)), Tail(events))

\* a variant of the last statement that keeps the old snapshot
NextPreviousKept(prevMap, curMap) == prevMap

\* this.previousOrdersMap = currentOrdersMap
NextPrevious(prevMap, curMap) == curMap

InitDiffer ==
  /\ DifferIdle
  /\ PollIdle
  /\ UiIdle
  /\ TradesIdle
  /\ MgrIdle
  /\ PriceIdle
  /\ ReloadIdle
  /\ UpdIdle

\* detectOrderChanges(currentOrders): what it does to the dashboard
DetectEffect(cur) ==
  /\ calls' = calls + 1
  /\ currentOrders' = cur
  /\ IF cur.missing
     THEN /\ emitted' = <<>>
          /\ notified' = <<>>
          /\ UNCHANGED <<previousOrdersMap, eventHistory, manuallyCancelledOrders>>
     ELSE LET curMap == BuildMap(cur.list)
              events == PreviousPass(previousOrdersMap, curMap, 1)
                          \o CurrentPass(curMap, previousOrdersMap, 1)
          IN /\ emitted' = events
             /\ notified' = NotifyPass(previousOrdersMap, curMap, manuallyCancelledOrders, 1)
             /\ eventHistory' = AddEvents(eventHistory, events)
             /\ manuallyCancelledOrders' =
                  {o \in manuallyCancelledOrders :
                     ~(MapHas(previousOrdersMap, o) /\ ~MapHas(curMap, o))}
             /\ previousOrdersMap' = NextPrevious(previousOrdersMap, curMap)

\* detectOrderChanges(currentOrders) called on its own
DetectOrderChanges(cur) ==
  /\ calls < MaxCalls
  /\ DetectEffect(cur)
  /\ UNCHANGED <<mgrVars, priceVars, reloadVars, updVars, pollVars>>
  /\ UNCHANGED <<uiVars, tradeVars>>

\* executeCancelOrder after sdk.cancelOrder returned, for an order of the snapshot
\* shown: this.manuallyCancelledOrders.add(order.orderId)
MarkCancelled(o) ==
  /\ MapHas(previousOrdersMap, o)
  /\ o \notin manuallyCancelledOrders
  /\ manuallyCancelledOrders' = manuallyCancelledOrders \cup {o}
  /\ UNCHANGED <<previousOrdersMap, eventHistory, currentOrders, emitted, notified, calls>>
  /\ UNCHANGED <<mgrVars, priceVars, reloadVars, updVars, pollVars>>
  /\ UNCHANGED <<uiVars, tradeVars>>

NextDiffer ==
  \/ \E cur \in Snapshots : DetectOrderChanges(cur)
  \/ \E o \in DiffIds : MarkCancelled(o)

SpecDiffer == InitDiffer /\ [][NextDiffer]_vars

\* the step is a detectOrderChanges call that received a list
DetectStep == calls' = calls + 1 /\ ~currentOrders'.missing

\* the events of the call for orderId o
EventsFor(o) == {i \in 1..Len(emitted') : emitted'[i].orderId = o}

\* C18: a detectOrderChanges call with the same open-order list as the call before
\* emits no event; an order whose filled amount is the same in the previous and the
\* current snapshot produces no event.
C18_UnchangedEmitsNothing ==
  [][DetectStep =>
       /\ (~currentOrders.missing /\ currentOrders' = currentOrders) =>
            emitted' = <<>> /\ eventHistory' = eventHistory
       /\ \A o \in DiffIds :
            (/\ MapHas(previousOrdersMap, o)
             /\ MapHas(previousOrdersMap', o)
             /\ MapGet(previousOrdersMap', o).filled = MapGet(previousOrdersMap, o).filled) =>
              EventsFor(o) = {}]_vars

\* a second or later call on a non-empty snapshot emitted nothing, after earlier events
C18_Witness ==
  /\ calls >= 2
  /\ ~currentOrders.missing
  /\ Len(previousOrdersMap) > 0
  /\ emitted = <<>>
  /\ Len(eventHistory) > 0

\* C19: for every orderId in the previous snapshot and not in the current one the call
\* emits exactly one event, order_filled if the order's last seen filled is at least
\* 0.99 * amount and order_removed otherwise.
C19_RemovalClassified ==
  [][DetectStep =>
       \A o \in DiffIds :
         (MapHas(previousOrdersMap, o) /\ ~MapHas(previousOrdersMap', o)) =>
           LET prevOrder == MapGet(previousOrdersMap, o)
           IN /\ Cardinality(EventsFor(o)) = 1
              /\ \A i \in EventsFor(o) :
                   emitted'[i].type =
                     IF prevOrder.filled * 100 >= prevOrder.amount * 99
                     THEN "order_filled" ELSE "order_removed"]_vars

\* C20 as stated: for every orderId in both snapshots the call emits exactly one
\* order_partially_filled event with filledAmount = currentFilled - previousFilled when
\* currentFilled > previousFilled, and no event otherwise.
C20_ProgressDelta ==
  [][DetectStep =>
       \A o \in DiffIds :
         (MapHas(previousOrdersMap, o) /\ MapHas(previousOrdersMap', o)) =>
           LET prevFilled == MapGet(previousOrdersMap, o).filled
               currentFilled == MapGet(previousOrdersMap', o).filled
           IN IF currentFilled > prevFilled
              THEN /\ Cardinality(EventsFor(o)) = 1
                   /\ \A i \in EventsFor(o) :
                        /\ emitted'[i].type = "order_partially_filled"
                        /\ emitted'[i].filledAmount = currentFilled - prevFilled
              ELSE EventsFor(o) = {}]_vars

\* C20 amended: the event carries the difference written with 4 decimals.
C20_ProgressDeltaFixed4 ==
  [][DetectStep =>
       \A o \in DiffIds :
         (MapHas(previousOrdersMap, o) /\ MapHas(previousOrdersMap', o)) =>
           LET prevFilled == MapGet(previousOrdersMap, o).filled
               currentFilled == MapGet(previousOrdersMap', o).filled
           IN IF currentFilled > prevFilled
              THEN /\ Cardinality(EventsFor(o)) = 1
                   /\ \A i \in EventsFor(o) :
                        /\ emitted'[i].type = "order_partially_filled"
                        /\ emitted'[i].filledAmount =
                             (((currentFilled - prevFilled) + 5) \div 10) * 10
              ELSE EventsFor(o) = {}]_vars

\* a call emitted an order_partially_filled event whose difference, 0.00096, is written
\* as 0.0010
C20_Witness ==
  \E i \in 1..Len(emitted) :
    /\ emitted[i].type = "order_partially_filled"
    /\ emitted[i].filledAmount = 100
    /\ MapGet(previousOrdersMap, emitted[i].orderId).filled = 98996

\* C21: for every orderId in the current snapshot and not in the previous one (every
\* order of the first call included) the call emits exactly one event for that orderId,
\* and it is order_created.
C21_CreatedOnce ==
  [][DetectStep =>
       \A o \in DiffIds :
         (~MapHas(previousOrdersMap, o) /\ MapHas(previousOrdersMap', o)) =>
           /\ Cardinality(EventsFor(o)) = 1
           /\ \A i \in EventsFor(o) : emitted'[i].type = "order_created"]_vars

\* the first call received a list that names the same orderId twice and emitted one
\* order_created for it
C21_Witness ==
  /\ calls = 1
  /\ ~currentOrders.missing
  /\ Len(currentOrders.list) = 2
  /\ currentOrders.list[1].orderId = currentOrders.list[2].orderId
  /\ Len(emitted) = 1
  /\ emitted[1].type = "order_created"

\* the last order of the list with orderId o
LastOf(list, o) ==
  LET i == CHOOSE i \in 1..Len(list) :
             /\ list[i].orderId = o
             /\ \A j \in (i + 1)..Len(list) : list[j].orderId # o
  IN list[i]

\* C22: after a call that received a list, previousOrdersMap holds exactly the orderIds
\* of that list, each once, with the data of its latest entry; a call without a list
\* leaves previousOrdersMap and the event history unchanged.
C22_SnapshotReplaced ==
  [][calls' = calls + 1 =>
       IF currentOrders'.missing
       THEN previousOrdersMap' = previousOrdersMap /\ eventHistory' = eventHistory
       ELSE LET list == currentOrders'.list
            IN /\ \A o \in DiffIds :
                    MapHas(previousOrdersMap', o) <=> \E i \in 1..Len(list) : list[i].orderId = o
               /\ \A i, j \in 1..Len(previousOrdersMap') :
                    previousOrdersMap'[i].key = previousOrdersMap'[j].key => i = j
               /\ \A i \in 1..Len(previousOrdersMap') :
                    previousOrdersMap'[i].val = LastOf(list, previousOrdersMap'[i].key)]_vars

\* a call without a list came after a snapshot of two orders and after events
C22_Witness ==
  /\ calls >= 2
  /\ currentOrders.missing
  /\ Len(previousOrdersMap) = 2
  /\ Len(eventHistory) > 0

\* the algorithm of the specification, in decimal arithmetic: lower the best ask by 0.1
\* when the spread is above 0.1, raise to the cost, give up when not above the best bid,
\* round to 3 decimals
SpecifiedPrice(cost, book) ==
  LET bestBid == book.bids[1].price
      bestAsk == book.asks[1].price
      t0 == IF bestAsk - bestBid > SpreadThreshold THEN bestAsk - SpreadStep ELSE bestAsk
      t == Max(t0, cost)
  IN IF t <= bestBid THEN NoPrice ELSE Round3(t)

\* calculateClearPrice has been applied to <<cost, bestBid, bestAsk>>
AppliedTo(cost, bid, ask) ==
  /\ calcDone
  /\ costPrice = cost
  /\ orderBook.bids = <<Level(bid)>>
  /\ orderBook.asks = <<Level(ask)>>

\* C23: for a book with both sides non-empty calculateClearPrice returns the result of
\* the specified algorithm; (cost 0.90, bid 0.91, ask 0.93) gives 0.930, (cost 0.85,
\* bid 0.80, ask 0.95) gives 0.850 and (cost 0.92, bid 0.93, ask 0.94) gives no price.
C23_SpecifiedAlgorithm ==
  /\ (/\ calcDone
      /\ orderBook.bids # NoList /\ Len(orderBook.bids) > 0
      /\ orderBook.asks # NoList /\ Len(orderBook.asks) > 0) =>
       clearPrice = SpecifiedPrice(costPrice, orderBook)
  /\ AppliedTo(9000, 9100, 9300) => clearPrice = 9300
  /\ AppliedTo(8500, 8000, 9500) => clearPrice = 8500
  /\ AppliedTo(9200, 9300, 9400) => clearPrice = NoPrice

\* the bids list or the asks list of the book is undefined or empty
EmptySide(book) == book.bids \in {NoList, <<>>} \/ book.asks \in {NoList, <<>>}

\* calculateClearPrice gives no price for every cost and every book with such a side
EmptySideGivesNoPrice ==
  \A cost \in LowBand \cup HighBand \cup TrackPrices, bids \in BidLists, asks \in AskLists :
    LET book == [error |-> "", bids |-> bids, asks |-> asks]
    IN EmptySide(book) => calculateClearPrice(cost, book) = NoPrice

\* C24: calculateClearPrice returns no price whenever the bids or the asks of the book
\* are missing or empty, for every cost; createReverseClearOrder, once it has fetched
\* such a book, leaves the order in error and goes to the save of its finally block
\* with no sell submitted.
C24_EmptyBookIsError ==
  [][/\ EmptySideGivesNoPrice
     /\ \A t \in Tasks :
          (tasks[t].pc = "crc_fetch" /\ tasks'[t].pc # "crc_fetch") =>
            (EmptySide(tasks'[t].book) =>
               /\ tasks'[t].pc = "crc_final"
               /\ ObjOf(trackedOrders', tasks'[t]).status = "error"
               /\ tasks'[t].err \in PreSubmitErrors
               /\ sells' = sells)]_vars

\* createReverseClearOrder found no safe price for a book with bids and no asks, and is
\* at the save of its finally block; nothing was sold
C24_Witness ==
  \E t \in Tasks :
    /\ tasks[t].pc = "crc_final"
    /\ tasks[t].err = "no safe price"
    /\ tasks[t].book.asks = <<>>
    /\ tasks[t].book.bids # <<>>
    /\ ObjOf(trackedOrders, tasks[t]).status = "error"
    /\ sells = <<>>

\* C25: an orderId leaves the tracked-order map only in a removeTrackedOrder or clearAll
\* step, and an order stored as cleared or error leaves the stored document only when
\* it has been removed from the map.
C25_OnlyExplicitRemoval ==
  [][\A o \in OrderIds :
       /\ (Has(trackedOrders, o) /\ ~Has(trackedOrders', o)) => RemovalStep
       /\ (doc[o].status \in {"cleared", "error"} /\ ~Has(doc', o)) =>
            ~Has(trackedOrders', o)]_vars

\* the entry holds what a rejected call would have left out: an undefined orderId or a
\* price that is not a number
InvalidEntry(e) == e.key = UndefinedKey \/ e.rec.price = NotANumber

\* C28: trackOrder with an undefined orderId or a price that does not parse to a number
\* is rejected: no entry with such an orderId or price is put into the map or into the
\* stored document.
C28_InvalidParamsRejected ==
  [][phase' = "start" =>
       /\ \A i \in 1..Len(memMap') :
            InvalidEntry(memMap'[i]) => (i <= Len(memMap) /\ memMap[i] = memMap'[i])
       /\ \A nm \in DOMAIN file' :
            (nm = 0 \/ file'[nm].price = Unset) => (nm \in DOMAIN file /\ file[nm] = file'[nm])]_vars

\* the step is the end of a save of task t: its write has landed or failed, and the
\* operation goes on to its next await
WriteStepOf(t) == tasks[t].pc \in SavePcs /\ tasks'[t].pc # tasks[t].pc

\* C27: a save whose write fails leaves the stored document as it was and throws
\* nothing: the operation goes on from the in-memory map exactly as after a successful
\* write, and the map is not rolled back; every save hands the full current map to
\* the file, so the next successful write stores it.
C27_FailedWriteHarmless ==
  [][\A t \in Tasks :
       /\ WriteStepOf(t) =>
            /\ doc' \in {doc, tasks[t].snap}
            /\ \E cos \in NextRuns(tasks[t]) :
                 /\ PassedOver(trackedOrders, cos)
                 /\ trackedOrders' = AfterSave(trackedOrders, tasks[t], cos)[1]
                 /\ tasks'[t] = AfterSave(trackedOrders, tasks[t], cos)[2]
       /\ (tasks'[t].pc \in SavePcs /\ tasks'[t].pc # tasks[t].pc) =>
            tasks'[t].snap = Serialize(trackedOrders')]_vars

\* the one trackOrder call so far has returned, its write failed: the order is in the
\* map, pending, and the document is empty
C27_Witness ==
  /\ clock = 1
  /\ \A t \in Tasks : tasks[t].pc = "idle"
  /\ \E o \in OrderIds : trackedOrders[o].status = "pending"
  /\ doc = EmptyMap

----------------------------------------------------------------------------
(* SpecPoll: refreshOpenOrders of the dashboard, await by await, with the SDK enabled *)
(* and an AutoClearManager present.  updateOrderStatus is one await here: what it     *)
(* does to the manager is the subject of Spec.                                        *)

PollTasks == 1..MaxPolls

\* what getOpenOrders returns: a result without a list, or a list of at most MaxPollOpen
\* orders, each untouched or filled to 99.5 percent
PollOrders == [orderId : DiffIds, filled : {0, 99500}, amount : DiffAmounts]
PollResults ==
  {NoSnapshot} \cup
  {[list |-> l, missing |-> FALSE] : l \in UNION {[1..k -> PollOrders] : k \in 0..MaxPollOpen}}

\* this.openOrders = result
ResultOrders(result) == [kind |-> "result", list |-> result.list, missing |-> result.missing]

\* this.openOrders = { error: error.message, list: [], total: 0 }
ErrorOrders == [kind |-> "error", list |-> <<>>, missing |-> FALSE]

IdlePoll == [pc |-> "idle", result |-> NoSnapshot]

InitPoll ==
  /\ PollIdle
  /\ UiIdle
  /\ TradesIdle
  /\ DifferIdle
  /\ MgrIdle
  /\ PriceIdle
  /\ ReloadIdle
  /\ UpdIdle

\* refresh() calls refreshOpenOrders, which runs to the await of getOpenOrders; the
\* timer, the R key and the order handlers call refresh() whether or not one is running
PollStart(t) ==
  /\ poll[t].pc = "idle"
  /\ cycles < MaxCycles
  /\ cycles' = cycles + 1
  /\ poll' = [poll EXCEPT ![t] = [IdlePoll EXCEPT !.pc = "open_fetch"]]
  /\ UNCHANGED <<openOrders, pending>>
  /\ UNCHANGED <<mgrVars, priceVars, reloadVars, updVars, differVars>>
  /\ UNCHANGED <<uiVars, tradeVars>>

\* getOpenOrders throws: the catch block
PollOpenFailed(t) ==
  /\ poll[t].pc = "open_fetch"
  /\ openOrders' = ErrorOrders
  /\ poll' = [poll EXCEPT ![t] = IdlePoll]
  /\ UNCHANGED <<pending, cycles>>
  /\ UNCHANGED <<mgrVars, priceVars, reloadVars, updVars, differVars>>
  /\ UNCHANGED <<uiVars, tradeVars>>

\* a variant that awaits the notifications it has started before it goes on
PollOpenFetchedAwaitsNotify(t, result) ==
  /\ poll[t].pc = "open_fetch"
  /\ DetectEffect(result)
  /\ pending' = pending + Len(notified')
  /\ openOrders' = ResultOrders(result)
  /\ poll' = [poll EXCEPT ![t] = [pc |-> IF Len(notified') > 0 THEN "notify" ELSE "closed_fetch",
                                 result |-> result]]
  /\ UNCHANGED cycles
  /\ UNCHANGED <<mgrVars, priceVars, reloadVars, updVars>>
  /\ UNCHANGED <<uiVars, tradeVars>>

\* getOpenOrders returns: detectOrderChanges(result), which starts the notifications
\* and does not await them, this.openOrders = result, then the await of getClosedOrders
PollOpenFetched(t, result) ==
  /\ poll[t].pc = "open_fetch"
  /\ DetectEffect(result)
  /\ pending' = pending + Len(notified')
  /\ openOrders' = ResultOrders(result)
  /\ poll' = [poll EXCEPT ![t] = [pc |-> "closed_fetch", result |-> result]]
  /\ UNCHANGED cycles
  /\ UNCHANGED <<mgrVars, priceVars, reloadVars, updVars>>
  /\ UNCHANGED <<uiVars, tradeVars>>

\* getClosedOrders throws: the catch block
PollClosedFailed(t) ==
  /\ poll[t].pc = "closed_fetch"
  /\ openOrders' = ErrorOrders
  /\ poll' = [poll EXCEPT ![t] = IdlePoll]
  /\ UNCHANGED <<pending, cycles>>
  /\ UNCHANGED <<mgrVars, priceVars, reloadVars, updVars, differVars>>
  /\ UNCHANGED <<uiVars, tradeVars>>

\* getClosedOrders returns: the await of updateOrderStatus(closedOrders.list)
PollClosedFetched(t) ==
  /\ poll[t].pc = "closed_fetch"
  /\ poll' = [poll EXCEPT ![t].pc = "update"]
  /\ UNCHANGED <<openOrders, pending, cycles>>
  /\ UNCHANGED <<mgrVars, priceVars, reloadVars, updVars, differVars>>
  /\ UNCHANGED <<uiVars, tradeVars>>

\* updateOrderStatus returns, or throws into the catch block
PollUpdateReturns(t, ok) ==
  /\ poll[t].pc = "update"
  /\ openOrders' = IF ok THEN openOrders ELSE ErrorOrders
  /\ poll' = [poll EXCEPT ![t] = IdlePoll]
  /\ UNCHANGED <<pending, cycles>>
  /\ UNCHANGED <<mgrVars, priceVars, reloadVars, updVars, differVars>>
  /\ UNCHANGED <<uiVars, tradeVars>>

\* a notification settles: sendMessage resolves, or the promise rejects and the catch
\* handler given by detectOrderChanges logs the error
NotifySettled ==
  /\ pending > 0
  /\ pending' = pending - 1
  /\ UNCHANGED <<openOrders, poll, cycles>>
  /\ UNCHANGED <<mgrVars, priceVars, reloadVars, updVars, differVars>>
  /\ UNCHANGED <<uiVars, tradeVars>>

NextPoll ==
  \/ \E t \in PollTasks : PollStart(t)
  \/ \E t \in PollTasks : PollOpenFailed(t)
  \/ \E t \in PollTasks, result \in PollResults : PollOpenFetched(t, result)
  \/ \E t \in PollTasks : PollClosedFailed(t)
  \/ \E t \in PollTasks : PollClosedFetched(t)
  \/ \E t \in PollTasks, ok \in BOOLEAN : PollUpdateReturns(t, ok)
  \/ NotifySettled

SpecPoll == InitPoll /\ [][NextPoll]_vars

\* C26: a failed fetch leaves the refreshOpenOrders call finished, so that later cycles
\* run, and skips only what depends on it: a failed open-order fetch leaves the
\* snapshot and the events alone, and when the closed-order fetch or the
\* reconciliation after it fails, this.openOrders keeps the open-order data of the
\* cycle.
C26_FailureKeepsOpenOrders ==
  [][\A t \in PollTasks :
       /\ (poll[t].pc = "open_fetch" /\ poll'[t].pc = "idle") =>
            UNCHANGED <<previousOrdersMap, eventHistory>>
       /\ (poll[t].pc \in {"closed_fetch", "update"} /\ poll'[t].pc = "idle") =>
            openOrders' = openOrders]_vars

\* C29: detectOrderChanges starts the notifications without waiting for them: in the
\* step in which the open orders arrive the events are recorded, the snapshot is
\* replaced and the cycle is at its closed-order fetch, however many notifications are
\* unsettled; with notifications unsettled the closed-order fetch can return and
\* updateOrderStatus can run and return; a notification that settles, delivered or
\* failed, changes nothing of the cycle.
C29_NotificationsNeverBlock ==
  /\ [][/\ \A t \in PollTasks :
            (poll[t].pc = "open_fetch" /\ poll'[t].pc \notin {"open_fetch", "idle"}) =>
              /\ poll'[t].pc = "closed_fetch"
              /\ pending' = pending + Len(notified')
              /\ ~currentOrders'.missing =>
                   /\ eventHistory' = AddEvents(eventHistory, emitted')
                   /\ previousOrdersMap' = BuildMap(currentOrders'.list)
        /\ pending' < pending => UNCHANGED <<poll, openOrders, differVars>>]_vars
  /\ [](\A t \in PollTasks :
          /\ poll[t].pc = "closed_fetch" => ENABLED PollClosedFetched(t)
          /\ poll[t].pc = "update" => ENABLED PollUpdateReturns(t, TRUE))

\* updateOrderStatus of a cycle is running while the notifications started by the
\* detectOrderChanges call of that cycle, one for a filled order, are all unsettled
C29_Witness ==
  \E t \in PollTasks :
    /\ poll[t].pc = "update"
    /\ poll[t].result = currentOrders
    /\ Len(notified) > 0
    /\ notified[1].type = "filled"
    /\ pending >= Len(notified)
    /\ \A u \in PollTasks \ {t} : poll[u].pc = "idle"

----------------------------------------------------------------------------
(* SpecRestart: a new process starts on the document an earlier one left, then runs *)
(* as in Spec.  The records of the earlier process carry trackedAt 0.               *)

\* what the earlier process stored for an order found filled and left in clearing when
\* it stopped; the fill it saw (2 USDT) is none that the closed orders of this run report
StoredClearing ==
  { [NewOrder(BuySide, pr, 0) EXCEPT !.status = "clearing",
                                     !.filledShares = SharesOf(20000, pr),
                                     !.filledUsdt = 20000] : pr \in TrackPrices }

\* the documents the earlier process can have left
RestartDocs == [OrderIds -> StoredClearing]

\* a variant of initialize that puts an order stored as clearing back to pending
LoadStoredResumes(stored) ==
  [o \in OrderIds |->
     IF stored[o].status = "clearing"
     THEN [JsonRecord(stored[o]) EXCEPT !.status = "pending"]
     ELSE JsonRecord(stored[o])]

\* the loop of initialize on the parsed document: every stored orderInfo is set into
\* the map as it was written
LoadStored(stored) == [o \in OrderIds |-> JsonRecord(stored[o])]

\* start() awaits initialize() before its first refresh; no order is entered while the
\* document is being read
BootTask == [IdleTask EXCEPT !.pc = "init"]

InitRestart ==
  /\ trackedOrders = EmptyMap
  /\ doc \in RestartDocs
  /\ tasks = [t \in Tasks |-> BootTask]
  /\ sells = <<>>
  /\ clock = 0
  /\ isInitialized = FALSE
  /\ PriceIdle
  /\ ReloadIdle
  /\ UpdIdle
  /\ DifferIdle
  /\ PollIdle
  /\ UiIdle
  /\ TradesIdle

\* initialize(): the document is read and parsed, its entries are set into the map, and
\* the dashboard goes on to its refresh cycles
InitializeStored ==
  /\ ~isInitialized
  /\ trackedOrders' = LoadStored(doc)
  /\ isInitialized' = TRUE
  /\ tasks' = [t \in Tasks |-> IdleTask]
  /\ UNCHANGED <<doc, sells, clock>>
  /\ UNCHANGED <<priceVars, reloadVars, updVars, differVars, pollVars>>
  /\ UNCHANGED <<uiVars, tradeVars>>

NextRestart ==
  \/ InitializeStored
  \/ Next

SpecRestart == InitRestart /\ [][NextRestart]_vars

\* C30: initialize loads an order stored as clearing with status clearing and its
\* other fields; afterwards, as long as the order is not tracked again or removed, no
\* step changes its record and no sell is submitted for it.
C30_ClearingSurvivesRestart ==
  [][\A o \in OrderIds :
       /\ (~isInitialized /\ isInitialized' /\ doc[o] \in StoredClearing) =>
            trackedOrders'[o] = doc[o]
       /\ (/\ isInitialized
           /\ trackedOrders[o] \in StoredClearing
           /\ ~TrackStep
           /\ ~RemovalStep) =>
            /\ trackedOrders'[o] = trackedOrders[o]
            /\ \A i \in 1..Len(sells') :
                 ~(sells'[i].orderId = o /\ sells'[i].trackedAt = 0)]_vars

\* after the restart a poll cycle has fetched the open orders and awaits the closed
\* orders, and the order loaded as clearing is as it was stored
C30_Witness ==
  /\ isInitialized
  /\ clock = 0
  /\ \E t \in Tasks : tasks[t].pc = "closed_fetch"
  /\ \E o \in OrderIds :
       /\ trackedOrders[o] \in StoredClearing
       /\ trackedOrders[o] = doc[o]
  /\ sells = <<>>

----------------------------------------------------------------------------
(* SpecReconcile: the poll cycle with both of its halves: detectOrderChanges on the *)
(* open orders, then updateOrderStatus on the closed orders.  Orders are entered by *)
(* submitOrder with auto clear enabled; every file write succeeds.                  *)

\* refreshOpenOrders: getOpenOrders returns, detectOrderChanges(result) runs and
\* getClosedOrders is called
ReconcileOpen(t, result) ==
  /\ tasks[t].pc = "open_fetch"
  /\ calls < MaxCalls
  /\ DetectEffect(result)
  /\ tasks' = [tasks EXCEPT ![t] = [IdleTask EXCEPT !.pc = "closed_fetch"]]
  /\ UNCHANGED <<trackedOrders, doc, sells, clock, isInitialized>>
  /\ UNCHANGED <<priceVars, reloadVars, updVars, pollVars>>
  /\ UNCHANGED <<uiVars, tradeVars>>

\* one cycle at a time, and the open orders of the tracked ids only
ReconcileTasks == {1}
ReconcileResults ==
  {r \in PollResults : \A i \in 1..Len(r.list) : r.list[i].orderId \in OrderIds}

NextReconcile ==
  \E t \in ReconcileTasks :
    \/ StartRefresh(t)
    \/ SubmitOrder(t)
    \/ \E id \in OrderIds, price \in TrackPrices : BuyTracked(t, id, price)
    \/ OpenFetched(t, FALSE)
    \/ \E result \in ReconcileResults : ReconcileOpen(t, result)
    \/ ClosedFailed(t)
    \/ \E cos \in ClosedRuns : ClosedFetched(t, cos)
    \/ \E res \in FetchResults : BookFetched(t, res)
    \/ \E res \in SellResults : SellReturns(t, res)
    \/ \E cos \in NextRuns(tasks[t]) : WriteDone(t, TRUE, cos)

SpecReconcile == Init /\ [][NextReconcile]_vars

\* the step takes the tracked order o into createReverseClearOrder
EntersClearing(o) ==
  trackedOrders[o].status = "pending" /\ trackedOrders'[o].status = "clearing"

\* the events recorded for orderId o that end its presence in the snapshot
TerminalEvents(o) ==
  {i \in 1..Len(eventHistory) :
     /\ eventHistory[i].orderId = o
     /\ eventHistory[i].type \in {"order_filled", "order_removed"}}

\* C31: createReverseClearOrder is invoked for a tracked order only when
\* detectOrderChanges has reported the removal of its orderId as order_filled, and
\* never when it has reported it as order_removed.
C31_ClearingFollowsDiffer ==
  [][\A o \in OrderIds :
       EntersClearing(o) =>
         /\ TerminalEvents(o) # {}
         /\ \A i \in TerminalEvents(o) : eventHistory[i].type = "order_filled"]_vars

----------------------------------------------------------------------------
(* updateOrderStatus: what a call may change (SpecUpdate) *)

\* the closed order the loop of the call is at has orderId o
LoopAt(o) ==
  /\ closedList # NoList
  /\ idx \in 1..Len(closedList)
  /\ closedList[idx].orderId = o

\* the step changes the record of o only as the call does for a pending order of the
\* list: the loop finds it pending, createReverseClearOrder is called on the order just
\* marked filled, and returns for the order it put in clearing
ChangesAsListedPending(o) ==
  trackedOrders'[o] # trackedOrders[o] =>
    /\ LoopAt(o)
    /\ \/ upc = "loop" /\ trackedOrders[o].status = "pending"
       \/ upc = "call" /\ trackedOrders[o].status = "filled"
       \/ upc = "await" /\ trackedOrders[o].status = "clearing"

\* the call returns at once on a missing or empty list
ReturnsOnEmptyList ==
  (upc = "entry" /\ upc' # "entry" /\ (closedList = NoList \/ Len(closedList) = 0)) =>
    /\ upc' = "done"
    /\ UNCHANGED <<trackedOrders, doc, writes>>

\* C32 as stated: every step of an updateOrderStatus call changes only tracked orders
\* that are pending and in the closed-order list, and keeps the set of tracked
\* orderIds; with a null or empty list the call changes nothing and writes nothing.
C32_OnlyPendingListed ==
  [][/\ \A o \in UpdIds :
          /\ ChangesAsListedPending(o)
          /\ Has(trackedOrders', o) = Has(trackedOrders, o)
     /\ (closedList = NoList \/ Len(closedList) = 0) =>
          UNCHANGED <<trackedOrders, doc, writes>>
     /\ ReturnsOnEmptyList]_vars

\* C32 amended: once the manager is initialized, every step of the call changes only
\* tracked orders that are pending and in the closed-order list, and keeps the set of
\* tracked orderIds; with a null or empty list such a call changes nothing and writes
\* nothing.  A call on a manager that is not initialized first runs initialize, which
\* sets the stored orders into the map and writes nothing.
C32_OnlyPendingListedOnceInitialized ==
  [][/\ isInitialized =>
          /\ \A o \in UpdIds :
               /\ ChangesAsListedPending(o)
               /\ Has(trackedOrders', o) = Has(trackedOrders, o)
          /\ (closedList = NoList \/ Len(closedList) = 0) =>
               UNCHANGED <<trackedOrders, doc, writes>>
          /\ ReturnsOnEmptyList
     /\ ~isInitialized =>
          /\ isInitialized'
          /\ UNCHANGED <<doc, writes, upc>>
          /\ \A o \in UpdIds :
               trackedOrders'[o] # trackedOrders[o] => trackedOrders'[o] = doc[o]]_vars

\* the call has returned after it took a listed pending order through clearing; a
\* pending order that is not in the list and a listed order that was not pending are
\* as they were
C32_Witness ==
  /\ upc = "done"
  /\ hasChanges
  /\ Len(closedList) = 2
  /\ closedList[1].orderId = 1
  /\ closedList[2].orderId = 1
  /\ trackedOrders[1].status = "cleared"
  /\ trackedOrders[2].status = "pending"

----------------------------------------------------------------------------
(* Clearing under overlapping cycles (Spec) *)

----------------------------------------------------------------------------
(* SpecFair: Spec in which every external call that is awaited settles *)

\* a file write of task t completes or fails; the order-book fetch of
\* createReverseClearOrder returns or throws; sellByTopic answers, rejects or times out
Settles(t) ==
  /\ WF_vars(\E ok \in BOOLEAN, cos \in NextRuns(tasks[t]) : WriteDone(t, ok, cos))
  /\ WF_vars(\E res \in FetchResults : BookFetched(t, res))
  /\ WF_vars(\E res \in SellResults : SellReturns(t, res))

SpecFair == Init /\ [][Next]_vars /\ \A t \in Tasks : Settles(t)

\* the record that the trackOrder call at time at made for orderId o is in clearing
InClearing(o, at) ==
  trackedOrders[o].status = "clearing" /\ trackedOrders[o].trackedAt = at

\* that record has reached cleared or error, or is no longer in the map (removed, or
\* replaced by a later trackOrder call)
OutOfClearing(o, at) ==
  \/ trackedOrders[o].status \in {"cleared", "error"}
  \/ ~Has(trackedOrders, o)
  \/ trackedOrders[o].trackedAt # at

StatsFilled == Cardinality({o \in OrderIds : trackedOrders[o].status = "filled"})

\* C35: at every await point no tracked order has status filled (getStats().filled is
\* 0), and no document written or being written by save holds an order of status
\* filled.
C35_FilledNeverObservable ==
  /\ StatsFilled = 0
  /\ \A o \in OrderIds :
       /\ doc[o].status # "filled"
       /\ \A t \in Tasks : tasks[t].pc \in SavePcs => tasks[t].snap[o].status # "filled"

\* the loop of updateOrderStatus found an order fully filled and is at the first await
\* after it, the save of createReverseClearOrder: the text being written has the order
\* in clearing with its fill
C35_Witness ==
  \E t \in Tasks :
    /\ tasks[t].pc = "crc_save1"
    /\ tasks[t].snap[tasks[t].id].status = "clearing"
    /\ tasks[t].snap[tasks[t].id].filledUsdt = 10000
    /\ trackedOrders[tasks[t].id].status = "clearing"
    /\ doc[tasks[t].id].status = "pending"

----------------------------------------------------------------------------
(* The events of one orderId over the calls of detectOrderChanges (SpecDiffer) *)

\* where the events h[i..] take the lifecycle of orderId o from state st: "absent" (not
\* in the snapshot), "present" (created and not ended) or "bad" (an event out of place)
RECURSIVE LifeEnd(_, _, _, _)
LifeEnd(h, o, i, st) ==
  IF i > Len(h) \/ st = "bad" THEN st
  ELSE IF h[i].orderId # o THEN LifeEnd(h, o, i + 1, st)
  ELSE LifeEnd(h, o, i + 1,
         CASE h[i].type = "order_created" -> IF st = "absent" THEN "present" ELSE "bad"
           [] h[i].type = "order_partially_filled" -> IF st = "present" THEN "present" ELSE "bad"
           [] h[i].type \in {"order_filled", "order_removed"} ->
                IF st = "present" THEN "absent" ELSE "bad"
           [] OTHER -> "bad")

\* the types of the events recorded for orderId o, in order
EventTypes(h, o) ==
  LET own == SelectSeq(h, LAMBDA e : e.orderId = o)
  IN [i \in 1..Len(own) |-> own[i].type]

\* C36: the events recorded for an orderId form a lifecycle: order_created first,
\* order_partially_filled only between an order_created and the next terminal event,
\* one order_filled or order_removed for each disappearance from the snapshot, and
\* another order_created only after it; the orderId is in the snapshot exactly while
\* its lifecycle is open.
C36_WellFormedLifecycle ==
  /\ Len(eventHistory) < MaxEventHistory
  /\ \A o \in DiffIds :
       LifeEnd(eventHistory, o, 1, "absent") =
         (IF MapHas(previousOrdersMap, o) THEN "present" ELSE "absent")

\* three calls have taken an order through a whole lifecycle: created, partially
\* filled, gone with its last fill at 99.5 percent
C36_Witness ==
  /\ EventTypes(eventHistory, 1) =
       <<"order_created", "order_partially_filled", "order_filled">>
  /\ ~MapHas(previousOrdersMap, 1)

----------------------------------------------------------------------------
(* SpecHistory: addEvent called over and over; the event added n-th carries n as its *)
(* orderId, which tells the events apart                                            *)

\* the number of addEvent calls so far: the number carried by the event passed last
Added == IF emitted = <<>> THEN 0 ELSE emitted[1].orderId

\* addEvent(eventType, data)
AddOne ==
  /\ Added < MaxAdded
  /\ LET event == [type |-> "order_created", orderId |-> Added + 1, amount |-> 100000,
                   filled |-> Unset, filledAmount |-> Unset]
     IN /\ emitted' = <<event>>
        /\ eventHistory' = AddEvent(eventHistory, event)
  /\ UNCHANGED <<previousOrdersMap, manuallyCancelledOrders, currentOrders, notified, calls>>
  /\ UNCHANGED <<mgrVars, priceVars, reloadVars, updVars, pollVars>>
  /\ UNCHANGED <<uiVars, tradeVars>>

NextHistory == AddOne

SpecHistory == InitDiffer /\ [][NextHistory]_vars

\* C38: the history holds at most MAX_EVENT_HISTORY events, and they are the most
\* recent ones in the order they were added: after n calls the events n - k + 1 .. n,
\* where k is the smaller of n and MAX_EVENT_HISTORY.
C38_HistoryKeepsMostRecent ==
  /\ Len(eventHistory) <= MaxEventHistory
  /\ Len(eventHistory) = (IF Added < MaxEventHistory THEN Added ELSE MaxEventHistory)
  /\ \A i \in 1..Len(eventHistory) :
       eventHistory[i].orderId = Added - Len(eventHistory) + i

\* more events were added than the history holds: the oldest are gone
C38_Witness ==
  /\ Len(eventHistory) = MaxEventHistory
  /\ eventHistory[1].orderId > 1

----------------------------------------------------------------------------
(* SpecTrades: the paging loop of getAllTrades; every queryTrades call settles and the
   loop resumes after each one.  page is counted up to MaxPage; the loop goes on beyond
   it as the code does. *)

\* what queryTrades resolves with: list (its length) and total, as the server reports
\* them; a list of null reads as empty and a total of null as 0
PageResponses == [len : 0..MaxPageLen, total : 0..MaxTotal]

NoResponse == [len |-> 0, total |-> 0]

InitTrades ==
  /\ TradesIdle
  /\ UiIdle
  /\ PollIdle
  /\ DifferIdle
  /\ MgrIdle
  /\ PriceIdle
  /\ ReloadIdle
  /\ UpdIdle

tradeRest == <<mgrVars, priceVars, reloadVars, updVars, differVars, pollVars, uiVars>>

\* getAllTrades up to the first await of queryTrades
GetAllTrades ==
  /\ gpc.pc = "idle"
  /\ page' = 1
  /\ allTrades' = 0
  /\ gpc' = [pc |-> "query", result |-> NoResponse]
  /\ UNCHANGED tradeRest

\* the request of queryTrades is answered and queryTrades returns { list, total }
QueryResolves(result) ==
  /\ gpc.pc = "query"
  /\ gpc' = [pc |-> "result", result |-> result]
  /\ UNCHANGED <<page, allTrades>>
  /\ UNCHANGED tradeRest

\* the request fails: queryTrades rethrows and getAllTrades rejects
QueryThrows ==
  /\ gpc.pc = "query"
  /\ gpc' = [pc |-> "threw", result |-> NoResponse]
  /\ UNCHANGED <<page, allTrades>>
  /\ UNCHANGED tradeRest

\* getAllTrades resumes with the result: the list is pushed; the loop ends when
\* allTrades.length has reached result.total, and asks for the next page otherwise
LoopResumes ==
  /\ gpc.pc = "result"
  /\ allTrades' = allTrades + gpc.result.len
  /\ IF allTrades' >= gpc.result.total
     THEN /\ gpc' = [pc |-> "done", result |-> NoResponse]
          /\ page' = page
     ELSE /\ gpc' = [pc |-> "query", result |-> NoResponse]
          /\ page' = IF page < MaxPage THEN page + 1 ELSE page
  /\ UNCHANGED tradeRest

NextTrades ==
  \/ GetAllTrades
  \/ \E result \in PageResponses : QueryResolves(result)
  \/ QueryThrows
  \/ LoopResumes

\* every query settles and the loop resumes after it
SpecTrades ==
  InitTrades /\ [][NextTrades]_vars
    /\ WF_vars((\E result \in PageResponses : QueryResolves(result)) \/ QueryThrows)
    /\ WF_vars(LoopResumes)

\* C40: getAllTrades terminates whatever the pages are, also when a page is empty and
\* the reported total exceeds what was collected: a call that is waiting for a page
\* comes to its end (returns or rejects).
C40_PagingEnds == (gpc.pc = "query") ~> (gpc.pc \in {"done", "threw"})

----------------------------------------------------------------------------
(* SpecInteract: the key handlers of the dashboard with submitOrder, executeCancelOrder
   and the setTimeout callbacks they register.  The SDK is configured (sdkEnabled), so
   the two select functions do not return early.  A timer fires at any moment after it
   was registered: the delays (2 s, 3 s) bound neither the user's keypresses nor the
   time the exchange takes to answer. *)

\* order.price of the order-book items the user selects, x10000
BasePrices == {10, 15, 90, 9970, 9990}

Sides == {"bid", "ask"}

\* (basePrice, newAdjustment) for which the double sum basePrice + newAdjustment * 0.001
\* misses the interval although the exact sum lies in it: 0.009 + (-8 * 0.001) is
\* 0.0009999999999999992
DoubleRefused == {<<90, 0 - 8>>}

\* the range test of the up and down keys, without the test itself
AnyPriceInRange(basePrice, newAdjustment) == TRUE

\* newPrice >= 0.001 && newPrice <= 0.999 for newPrice = basePrice + newAdjustment * 0.001
NewPriceInRange(basePrice, newAdjustment) ==
  /\ basePrice + newAdjustment * 10 >= 10
  /\ basePrice + newAdjustment * 10 <= 9990
  /\ <<basePrice, newAdjustment>> \notin DoubleRefused

InFlight(s) == submits[s].pc \in {"exchange", "track", "refresh"}

\* the slot the next submitOrder call takes
FreeSubmit == CHOOSE s \in 1..MaxSubmits : submits[s].pc = "idle" /\ \A r \in 1..(s - 1) : submits[r].pc # "idle"

FreeCancel == CHOOSE c \in 1..MaxCancels : cancels[c] = "idle" /\ \A r \in 1..(c - 1) : cancels[r] # "idle"

InitInteract ==
  /\ UiIdle
  /\ TradesIdle
  /\ PollIdle
  /\ DifferIdle
  /\ MgrIdle
  /\ PriceIdle
  /\ ReloadIdle
  /\ UpdIdle

uiRest == <<mgrVars, priceVars, reloadVars, updVars, differVars, pollVars, tradeVars>>

\* Enter in navigation mode on an order-book row: selectOrderBookItem(side, order)
SelectOrderBookItem(side, price) ==
  /\ interactionMode = "null"
  /\ interactionMode' = "inputShares"
  /\ inputBuffer' = ""
  /\ priceAdjustment' = 0
  /\ selectedOrderData' = [kind |-> "book", side |-> side, price |-> price]
  /\ autoClearEnabled' = FALSE
  /\ UNCHANGED <<submitMessage, submits, cancels, timers>>
  /\ UNCHANGED uiRest

\* Enter in navigation mode on one of the user's open orders: selectMyOrder(order)
SelectMyOrder ==
  /\ interactionMode = "null"
  /\ submitMessage' = "confirmCancel"
  /\ interactionMode' = "confirmCancel"
  /\ selectedOrderData' = [kind |-> "order", side |-> "none", price |-> 0]
  /\ UNCHANGED <<priceAdjustment, inputBuffer, autoClearEnabled, submits, cancels, timers>>
  /\ UNCHANGED uiRest

\* the Escape key: handleEscape
KeyEscape ==
  /\ CASE interactionMode = "submitting" ->
            UNCHANGED <<interactionMode, selectedOrderData, submitMessage>>
       [] interactionMode = "confirm" ->
            /\ interactionMode' = "inputShares"
            /\ UNCHANGED <<selectedOrderData, submitMessage>>
       [] interactionMode = "inputShares" ->
            /\ interactionMode' = "null"
            /\ selectedOrderData' = NoSelection
            /\ UNCHANGED submitMessage
       [] interactionMode = "confirmCancel" ->
            /\ interactionMode' = "null"
            /\ selectedOrderData' = NoSelection
            /\ submitMessage' = ""
       [] OTHER ->
            UNCHANGED <<interactionMode, selectedOrderData, submitMessage>>
  /\ UNCHANGED <<priceAdjustment, inputBuffer, autoClearEnabled, submits, cancels, timers>>
  /\ UNCHANGED uiRest

\* a digit in input mode (the buffer is followed up to one character)
KeyDigit ==
  /\ interactionMode = "inputShares"
  /\ inputBuffer = ""
  /\ inputBuffer' = "5"
  /\ UNCHANGED <<interactionMode, selectedOrderData, priceAdjustment, autoClearEnabled,
                 submitMessage, submits, cancels, timers>>
  /\ UNCHANGED uiRest

\* Backspace in input mode
KeyBackspace ==
  /\ interactionMode = "inputShares"
  /\ inputBuffer # ""
  /\ inputBuffer' = ""
  /\ UNCHANGED <<interactionMode, selectedOrderData, priceAdjustment, autoClearEnabled,
                 submitMessage, submits, cancels, timers>>
  /\ UNCHANGED uiRest

\* Tab in input mode on an order-book item: the auto-clear option, for a bid only
KeyTab ==
  /\ interactionMode = "inputShares"
  /\ selectedOrderData.kind = "book"
  /\ autoClearEnabled' = IF selectedOrderData.side = "bid" THEN ~autoClearEnabled
                         ELSE autoClearEnabled
  /\ UNCHANGED <<interactionMode, selectedOrderData, priceAdjustment, inputBuffer,
                 submitMessage, submits, cancels, timers>>
  /\ UNCHANGED uiRest

\* the up key (adjustment 1) or the down key (adjustment -1) in input mode on an
\* order-book item
KeyUpDown(adjustment) ==
  /\ interactionMode = "inputShares"
  /\ selectedOrderData.kind = "book"
  /\ LET newAdjustment == priceAdjustment + adjustment
         basePrice == selectedOrderData.price
     IN /\ newAdjustment \in (0 - MaxAdjust)..MaxAdjust
        /\ priceAdjustment' = IF NewPriceInRange(basePrice, newAdjustment)
                              THEN newAdjustment ELSE priceAdjustment
  /\ UNCHANGED <<interactionMode, selectedOrderData, inputBuffer, autoClearEnabled,
                 submitMessage, submits, cancels, timers>>
  /\ UNCHANGED uiRest

\* Enter in input mode: showMessage for a buffer that is no positive number, confirm
\* mode otherwise
KeyReturnInput ==
  /\ interactionMode = "inputShares"
  /\ IF inputBuffer = ""
     THEN /\ submitMessage' = "invalid"
          /\ timers' = [timers EXCEPT !.message = 1]
          /\ UNCHANGED interactionMode
     ELSE /\ interactionMode' = "confirm"
          /\ UNCHANGED <<submitMessage, timers>>
  /\ UNCHANGED <<selectedOrderData, priceAdjustment, inputBuffer, autoClearEnabled,
                 submits, cancels>>
  /\ UNCHANGED uiRest

\* Enter in confirm mode: handleConfirmMode calls submitOrder, which runs to its first
\* await; with nothing selected, selectedOrderData.order throws inside the try
KeyReturnConfirm ==
  /\ interactionMode = "confirm"
  /\ \E s \in 1..MaxSubmits : submits[s].pc = "idle"
  /\ IF selectedOrderData.kind = "none"
     THEN /\ submitMessage' = "failed"
          /\ interactionMode' = "confirm"
          /\ submits' = [submits EXCEPT ![FreeSubmit].pc = "failed"]
          /\ timers' = [timers EXCEPT !.submitFailed = @ + 1]
     ELSE /\ submitMessage' = "submitting"
          /\ interactionMode' = "submitting"
          /\ submits' = [submits EXCEPT ![FreeSubmit].pc = "exchange"]
          /\ UNCHANGED timers
  /\ UNCHANGED <<selectedOrderData, priceAdjustment, inputBuffer, autoClearEnabled, cancels>>
  /\ UNCHANGED uiRest

\* Enter while submitting: the key handler routes it to handleConfirmMode, which returns
KeyReturnSubmitting ==
  /\ interactionMode = "submitting"
  /\ UNCHANGED uiVars
  /\ UNCHANGED uiRest

\* buyByTopic / sellByTopic resolves: the exchange has the order.  submitOrder goes on
\* reading this.selectedOrderData.side, which throws when nothing is selected any more
SubmitResolves(s) ==
  /\ submits[s].pc = "exchange"
  /\ IF selectedOrderData.kind = "none"
     THEN /\ submits' = [submits EXCEPT ![s] = [pc |-> "failed", accepted |-> TRUE,
                                                  tracked |-> FALSE]]
          /\ submitMessage' = "failed"
          /\ interactionMode' = "confirm"
          /\ timers' = [timers EXCEPT !.submitFailed = @ + 1]
     ELSE IF selectedOrderData.side = "bid" /\ autoClearEnabled
     THEN /\ submits' = [submits EXCEPT ![s] = [pc |-> "track", accepted |-> TRUE,
                                                  tracked |-> FALSE]]
          /\ UNCHANGED <<submitMessage, interactionMode, timers>>
     ELSE /\ submits' = [submits EXCEPT ![s] = [pc |-> "refresh", accepted |-> TRUE,
                                                  tracked |-> FALSE]]
          /\ submitMessage' = "submitted"
          /\ UNCHANGED <<interactionMode, timers>>
  /\ UNCHANGED <<selectedOrderData, priceAdjustment, inputBuffer, autoClearEnabled, cancels>>
  /\ UNCHANGED uiRest

\* buyByTopic / sellByTopic rejects: the catch of submitOrder
SubmitRejects(s) ==
  /\ submits[s].pc = "exchange"
  /\ submits' = [submits EXCEPT ![s].pc = "failed"]
  /\ submitMessage' = "failed"
  /\ interactionMode' = "confirm"
  /\ timers' = [timers EXCEPT !.submitFailed = @ + 1]
  /\ UNCHANGED <<selectedOrderData, priceAdjustment, inputBuffer, autoClearEnabled, cancels>>
  /\ UNCHANGED uiRest

\* autoClearManager.trackOrder resolves (the manager's side of it is BuyTracked of Spec)
SubmitTracked(s) ==
  /\ submits[s].pc = "track"
  /\ submits' = [submits EXCEPT ![s].pc = "refresh", ![s].tracked = TRUE]
  /\ submitMessage' = "submitted"
  /\ UNCHANGED <<interactionMode, selectedOrderData, priceAdjustment, inputBuffer,
                 autoClearEnabled, cancels, timers>>
  /\ UNCHANGED uiRest

\* refresh() resolves in submitOrder: the post-submit timer is registered
SubmitRefreshed(s) ==
  /\ submits[s].pc = "refresh"
  /\ submits' = [submits EXCEPT ![s].pc = "done"]
  /\ timers' = [timers EXCEPT !.postSubmit = @ + 1]
  /\ UNCHANGED <<interactionMode, selectedOrderData, priceAdjustment, inputBuffer,
                 autoClearEnabled, submitMessage, cancels>>
  /\ UNCHANGED uiRest

\* the callback submitOrder registered after its refresh
PostSubmitTimer ==
  /\ timers.postSubmit > 0
  /\ timers' = [timers EXCEPT !.postSubmit = @ - 1]
  /\ interactionMode' = "null"
  /\ selectedOrderData' = NoSelection
  /\ submitMessage' = ""
  /\ autoClearEnabled' = FALSE
  /\ UNCHANGED <<priceAdjustment, inputBuffer, submits, cancels>>
  /\ UNCHANGED uiRest

\* the callback the catch of submitOrder registered
SubmitFailedTimer ==
  /\ timers.submitFailed > 0
  /\ timers' = [timers EXCEPT !.submitFailed = @ - 1]
  /\ submitMessage' = ""
  /\ UNCHANGED <<interactionMode, selectedOrderData, priceAdjustment, inputBuffer,
                 autoClearEnabled, submits, cancels>>
  /\ UNCHANGED uiRest

\* the callback of showMessage (this.messageTimer)
MessageTimer ==
  /\ timers.message > 0
  /\ timers' = [timers EXCEPT !.message = 0]
  /\ submitMessage' = ""
  /\ UNCHANGED <<interactionMode, selectedOrderData, priceAdjustment, inputBuffer,
                 autoClearEnabled, submits, cancels>>
  /\ UNCHANGED uiRest

\* y in cancel-confirm mode: executeCancelOrder up to await sdk.cancelOrder; the mode
\* stays confirmCancel
KeyYes ==
  /\ interactionMode = "confirmCancel"
  /\ selectedOrderData.kind = "order"
  /\ \E c \in 1..MaxCancels : cancels[c] = "idle"
  /\ cancels' = [cancels EXCEPT ![FreeCancel] = "cancel"]
  /\ submitMessage' = "cancelling"
  /\ UNCHANGED <<interactionMode, selectedOrderData, priceAdjustment, inputBuffer,
                 autoClearEnabled, submits, timers>>
  /\ UNCHANGED uiRest

\* n in cancel-confirm mode
KeyNo ==
  /\ interactionMode = "confirmCancel"
  /\ interactionMode' = "null"
  /\ selectedOrderData' = NoSelection
  /\ submitMessage' = ""
  /\ UNCHANGED <<priceAdjustment, inputBuffer, autoClearEnabled, submits, cancels, timers>>
  /\ UNCHANGED uiRest

\* sdk.cancelOrder resolves: showMessage, then await refresh()
CancelResolves(c) ==
  /\ cancels[c] = "cancel"
  /\ cancels' = [cancels EXCEPT ![c] = "refresh"]
  /\ submitMessage' = "cancelled"
  /\ timers' = [timers EXCEPT !.message = 1]
  /\ UNCHANGED <<interactionMode, selectedOrderData, priceAdjustment, inputBuffer,
                 autoClearEnabled, submits>>
  /\ UNCHANGED uiRest

\* sdk.cancelOrder rejects: the catch of executeCancelOrder
CancelRejects(c) ==
  /\ cancels[c] = "cancel"
  /\ cancels' = [cancels EXCEPT ![c] = "done"]
  /\ submitMessage' = "cancelFailed"
  /\ timers' = [timers EXCEPT !.message = 1]
  /\ interactionMode' = "null"
  /\ selectedOrderData' = NoSelection
  /\ UNCHANGED <<priceAdjustment, inputBuffer, autoClearEnabled, submits>>
  /\ UNCHANGED uiRest

\* refresh() resolves in executeCancelOrder: the post-cancel timer is registered
CancelRefreshed(c) ==
  /\ cancels[c] = "refresh"
  /\ cancels' = [cancels EXCEPT ![c] = "done"]
  /\ timers' = [timers EXCEPT !.postCancel = @ + 1]
  /\ UNCHANGED <<interactionMode, selectedOrderData, priceAdjustment, inputBuffer,
                 autoClearEnabled, submitMessage, submits>>
  /\ UNCHANGED uiRest

\* the callback executeCancelOrder registered after its refresh
PostCancelTimer ==
  /\ timers.postCancel > 0
  /\ timers' = [timers EXCEPT !.postCancel = @ - 1]
  /\ interactionMode' = "null"
  /\ selectedOrderData' = NoSelection
  /\ UNCHANGED <<priceAdjustment, inputBuffer, autoClearEnabled, submitMessage, submits,
                 cancels>>
  /\ UNCHANGED uiRest

NextInteract ==
  \/ \E side \in Sides, price \in BasePrices : SelectOrderBookItem(side, price)
  \/ SelectMyOrder
  \/ KeyEscape
  \/ KeyDigit
  \/ KeyBackspace
  \/ KeyTab
  \/ \E adjustment \in {1, 0 - 1} : KeyUpDown(adjustment)
  \/ KeyReturnInput
  \/ KeyReturnConfirm
  \/ KeyReturnSubmitting
  \/ \E s \in 1..MaxSubmits : SubmitResolves(s)
  \/ \E s \in 1..MaxSubmits : SubmitRejects(s)
  \/ \E s \in 1..MaxSubmits : SubmitTracked(s)
  \/ \E s \in 1..MaxSubmits : SubmitRefreshed(s)
  \/ PostSubmitTimer
  \/ SubmitFailedTimer
  \/ MessageTimer
  \/ KeyYes
  \/ KeyNo
  \/ \E c \in 1..MaxCancels : CancelResolves(c)
  \/ \E c \in 1..MaxCancels : CancelRejects(c)
  \/ \E c \in 1..MaxCancels : CancelRefreshed(c)
  \/ PostCancelTimer

SpecInteract == InitInteract /\ [][NextInteract]_vars

\* C37: at most one order submission is in flight at any time, and no submission fails
\* after the exchange accepted its order (no timer callback resets the interaction mode
\* or selectedOrderData under a running submitOrder).
C37_OneSubmissionInFlight ==
  /\ Cardinality({s \in 1..MaxSubmits : InFlight(s)}) <= 1
  /\ \A s \in 1..MaxSubmits : ~(submits[s].pc = "failed" /\ submits[s].accepted)

\* basePrice + priceAdjustment * 0.001 of the selected order-book item lies in
\* [0.001, 0.999], as the double sum
AdjustedInRange(basePrice, adjustment) ==
  /\ basePrice + adjustment * 10 \in 10..9990
  /\ <<basePrice, adjustment>> \notin DoubleRefused

OnBookItem == selectedOrderData.kind = "book" /\ interactionMode = "inputShares"

\* C39: in input mode on an order-book item with a base price in [0.001, 0.999] the
\* adjusted price stays in [0.001, 0.999] after any up and down keys; an up or down key
\* that would leave the range leaves priceAdjustment unchanged; selecting an order-book
\* item sets priceAdjustment to 0.
C39_AdjustedPriceStaysInRange ==
  /\ [](OnBookItem => AdjustedInRange(selectedOrderData.price, priceAdjustment))
  /\ [][/\ \A adjustment \in {1, 0 - 1} :
             (KeyUpDown(adjustment)
               /\ ~AdjustedInRange(selectedOrderData.price, priceAdjustment + adjustment))
             => priceAdjustment' = priceAdjustment
        /\ (\E side \in Sides, price \in BasePrices : SelectOrderBookItem(side, price))
             => priceAdjustment' = 0]_vars

\* two up keys have brought the item at 0.997 to 0.999, where a third is refused
C39_Witness ==
  /\ OnBookItem
  /\ selectedOrderData.price = 9970
  /\ priceAdjustment = 2

====
